---- MODULE Spec2Model ----
(***************************************************************************)
(* Model of the metrics daemon supervision of chopsticks:                  *)
(*   - MetricsDaemon (src/chopsticks/metrics/daemon.py): start, stop,      *)
(*     is_running, cleanup_stale_files, get_status, each split into the    *)
(*     file-system and process calls it makes, so that the supervised      *)
(*     child runs in between them;                                         *)
(*   - main() of the spawned process (metrics/server_daemon.py);           *)
(*   - the PID file, the state file, the socket path and the processes.    *)
(*                                                                         *)
(*   - MetricsHandler and MetricsHTTPServer (metrics/http_server.py) as    *)
(*     one process uses them: SpecHttp, two server objects, one thread     *)
(*     calling start() and stop(), the serving threads answering GET.      *)
(*                                                                         *)
(*   - MetricsCollector (metrics/collector.py): SpecColl, two threads in   *)
(*     record_operation, one in get_summary, finalize() and the clock.     *)
(*   - PrometheusExporter (metrics/prometheus_exporter.py): SpecExp, two   *)
(*     exporters rendering the summaries they are given.                   *)
(*   - S3Client (workloads/s3/s3_workload.py) and download_object of       *)
(*     S3ReadOverloadUser (scenarios/s3_read_overload.py): SpecS3.         *)
(*     SpecClient is the S3Client alone, SpecUser the user with            *)
(*     _select_object_weighted, SpecRun the listeners on_test_start and    *)
(*     on_test_stop of the scenario module.                                *)
(*   - the tasks of MixedWorkloadUser                                      *)
(*     (scenarios/s3_mixed_workload_with_metrics.py) and of                *)
(*     VersioningWorkloadUser (scenarios/s3/versioning_workload.py):       *)
(*     SpecWork.                                                           *)
(*                                                                         *)
(* FairSeq is SpecSeq with weak fairness of the caller's steps.            *)
(* Three specifications of the daemon:                                     *)
(*   SpecSeq    one caller of MetricsDaemon, the child as src/ has it      *)
(*   Spec       two callers on the same files, the child as src/ has it,   *)
(*              no manual changes of the files                             *)
(*   SpecChild  one caller, plus main() run on its own with --pid-file,    *)
(*              against a MetricsHTTPServer whose constructor may return   *)
(* In src/ the call MetricsHTTPServer(host=, port=, socket_path=) of       *)
(* server_daemon.py:34 always raises TypeError, because                    *)
(* http_server.py:53 takes (host, port) only: main() never gets past that  *)
(* line.  SpecSeq and Spec have this child.  SpecChild adds the returning  *)
(* constructor, to check the rest of main().                               *)
(***************************************************************************)
EXTENDS Integers, Sequences, FiniteSets, TLC

\* ---------------------------------------------------------------- bounds
MaxSpawn == 2          \* processes created in one behaviour (pids 1..MaxSpawn)
MaxManual == 1         \* manual writes of the PID or state file in one behaviour
MaxCalls == 3          \* calls made in one behaviour of Spec
MaxBinds == 2          \* HTTPServer objects created in one behaviour
MaxRecords == 1        \* records one collector takes in, in one behaviour
MaxWrites == 2         \* record_operation calls begun in one behaviour
MaxTicks == 3          \* steps of the clock in one behaviour
MaxFed == 2            \* outcomes one exporter's summary is built from
MaxScrapes == 2        \* export() calls made on one exporter
MaxTasks == 2          \* S3Client and download_object calls in one behaviour
MaxObjects == 2        \* NUM_OBJECTS, the objects on_test_start uploads
MaxRuns == 2           \* listener calls in one behaviour
MaxVersions == 5       \* tasks of the versioning user in one behaviour

\* ------------------------------------------------------ program constants
StopPolls == 50        \* daemon.py:89  for _ in range(50)
Host == "0.0.0.0"      \* daemon.py:28
Port == 8090           \* daemon.py:29
NonexistentPid == MaxSpawn + 97   \* a pid no process of the model ever has
aggregation_window_seconds == 10  \* s3_read_overload.py:53
Retention == 1         \* closed windows the history is to keep

Pids == 1..MaxSpawn

\* ------------------------------------------------- text of the PID file
\* The PID file holds str(pid); readers apply int() to the text.
Digits == <<"0", "1", "2", "3", "4", "5", "6", "7", "8", "9">>

DigitOf(d) == Digits[d + 1]

IsDigit(ch) == \E d \in 0..9 : DigitOf(d) = ch

DigitVal(ch) == CHOOSE d \in 0..9 : DigitOf(d) = ch

RECURSIVE StrOfInt(_)
StrOfInt(n) ==
    IF n < 10 THEN <<DigitOf(n)>>
    ELSE Append(StrOfInt(n \div 10), DigitOf(n % 10))

\* int(text) raises ValueError unless the text is a decimal number (the texts
\* of the model hold digits and letters only: no sign, no blanks)
IntParses(t) == Len(t) > 0 /\ \A i \in 1..Len(t) : IsDigit(t[i])

RECURSIVE IntOfStr(_)
IntOfStr(t) ==
    IF Len(t) = 0 THEN 0
    ELSE 10 * IntOfStr(SubSeq(t, 1, Len(t) - 1)) + DigitVal(t[Len(t)])

\* ------------------------------------------------------------- the files
NoFile == [exists |-> FALSE, text |-> <<>>]

TextFile(t) == [exists |-> TRUE, text |-> t]

NoDoc == [pid |-> 0, host |-> "", port |-> 0, start_time |-> 0]

NoState == [exists |-> FALSE, parses |-> FALSE, doc |-> NoDoc]

\* the state file right after open(..., "w"): it exists and is empty
EmptyState == [exists |-> TRUE, parses |-> FALSE, doc |-> NoDoc]

\* json.dumps(state) written out; json.loads gives doc back
JsonState(d) == [exists |-> TRUE, parses |-> TRUE, doc |-> d]

\* what manual writes put into the PID file: a pid that does not exist, text
\* that is not a number, nothing
ManualTexts == {StrOfInt(NonexistentPid), <<"x">>, <<>>}

VARIABLES
    pidFile,     \* self.pid_file on disk
    stateFile,   \* self.state_file on disk
    sockFile,    \* TRUE iff self.socket_path exists on disk
    proc,        \* the processes: pid -> record
    nextPid,     \* the pid the next created process gets
    manual,      \* manual writes of the PID or state file so far
    call         \* caller -> the MetricsDaemon call it is in, see NoCall

daemonVars == <<pidFile, stateFile, sockFile, proc, nextPid, manual, call>>

\* One Python process that uses metrics/http_server.py
VARIABLES
    mserver,     \* the MetricsHTTPServer objects: server -> its fields
    socks,       \* the HTTPServer objects created: id -> owner, port, state
    nextSock,    \* the id the next HTTPServer object gets
    handlerExp,  \* MetricsHandler.exporter, the class attribute (0 is None)
    ingested,    \* exporter -> records its collector has taken in
    hcall,       \* the start() or stop() in progress, see NoHCall
    resp         \* the last response a MetricsHandler wrote

httpVars == <<mserver, socks, nextSock, handlerExp, ingested, hcall, resp>>

\* One MetricsCollector (metrics/collector.py) and the threads that use it
VARIABLES
    collector    \* the collector and its callers, a record of:

clock == collector.clock            \* the current time, in seconds
window == collector.window          \* the current AggregationWindow
history == collector.history        \* the closed windows, oldest first
lock == collector.lock              \* 0 free, else the writer that holds it
writer == collector.writer          \* writer -> its call, see NoWrite
reader == collector.reader          \* the get_summary call, see NoRead
finalized == collector.finalized    \* finalize() calls made (2: two or more)
accepted == collector.accepted      \* record -> times it was counted
writes == collector.writes          \* record_operation calls begun

collVars == <<collector>>

\* Two PrometheusExporter objects (metrics/prometheus_exporter.py)
VARIABLES
    exporters    \* the exporters and what they produced, a record of:

fed == exporters.fed                \* exporter -> outcomes its summary was
                                    \* built from, in order
scrapes == exporters.scrapes        \* exporter -> export() calls made on it
exported == exporters.exported      \* every <<summary, text>> exported

expVars == <<exporters>>

\* One Locust process that runs scenarios/s3_read_overload.py
VARIABLES
    scenario     \* the module globals, the user and the listeners, a record of:

test_objects == scenario.test_objects            \* the module global
metrics_collector == scenario.metrics_collector  \* the global is not None
get_object == scenario.get_object  \* the user's attribute, see NoGetObject
fired == scenario.fired            \* the request events fired, oldest first
recorded == scenario.recorded      \* the metrics handed to record_operation
task == scenario.task              \* the call made last, see NoTask
tasks == scenario.tasks            \* calls made
S3Workload == scenario.S3Workload  \* what the name is bound to in the
                                   \* scenario module: "class" or "Mock"
metrics_server == scenario.metrics_server  \* the global is not None
hook == scenario.hook              \* the listener called last, see NoHook
runs == scenario.runs              \* listener calls made
uploaded_objects == scenario.uploaded_objects  \* keys a MixedWorkloadUser
                                   \* holds in self.uploaded_objects
object_keys == scenario.object_keys  \* len(self.object_keys) of a
                                   \* VersioningWorkloadUser

s3Vars == <<scenario>>

\* what the steps of MetricsDaemon and of server_daemon.py leave alone
nonDaemonVars == <<httpVars, collVars, expVars, s3Vars>>

\* what the steps of http_server.py leave alone
nonHttpVars == <<daemonVars, collVars, expVars, s3Vars>>

\* what the steps of the collector leave alone
nonCollVars == <<daemonVars, httpVars, expVars, s3Vars>>

\* what the steps of the exporters leave alone
nonExpVars == <<daemonVars, httpVars, collVars, s3Vars>>

\* what the steps of the S3 client and of the scenario leave alone
nonS3Vars == <<daemonVars, httpVars, collVars, expVars>>

vars == <<daemonVars, httpVars, collVars, expVars, s3Vars>>

fileVars == <<pidFile, stateFile, sockFile>>

\* the callers of MetricsDaemon; SpecSeq and SpecChild run caller 1 only
Callers == {1, 2}

\* ------------------------------------------------------------- processes
\* st     where main() of server_daemon.py is ("unborn", ..., "exited")
\* pidArg --pid-file was given
\* pend   signals sent to the process and not yet delivered
\* hand   signals for which signal_handler is installed
\* h      where signal_handler is ("none" when it is not running)
\* srv    MetricsHTTPServer: "none" (self.server is None), "bound" (the
\*        HTTPServer exists, serve_forever not running), "serving", "closed"
\* code   exit status the exit in progress carries
\* exit   exit status, -1 while the process runs
NoProc == [st |-> "unborn", pidArg |-> FALSE, pend |-> {}, hand |-> {},
           h |-> "none", srv |-> "none", code |-> 0, exit |-> -1]

NewProc(withPidArg) == [NoProc EXCEPT !.st = "args", !.pidArg = withPidArg]

\* os.kill(pid, 0) succeeds: the process exists
Alive(p) == p \in Pids /\ proc[p].st \notin {"unborn", "exited"}

\* the process is gone: its exit status is what is left of it
Exited(p, status) == [NoProc EXCEPT !.st = "exited", !.pidArg = p.pidArg,
                                    !.exit = status]

\* datetime.now(): logical time, the number of processes created so far
Now == nextPid - 1

\* ---------------------------------------------------------------- callers
NoStatus == [shape |-> "none", running |-> FALSE, pid |-> 0, host |-> "",
             port |-> 0, start_time |-> 0]

Outcome(o) == [out |-> o, status |-> NoStatus]

\* pc     where the caller is in its call ("idle" between calls)
\* op     the call it is in, or made last
\* pid    the local variable pid of is_running, stop, cleanup_stale_files
\* child  process.pid of the Popen of start(), 0 before it
\* polls  iterations of the wait loop of stop() done
\* result how the last call ended
\* calls  calls begun (counted in Spec only)
NoCall == [pc |-> "idle", op |-> "none", pid |-> 0, child |-> 0, polls |-> 0,
           result |-> Outcome("none"), calls |-> 0]

AllIdle == \A c \in Callers : call[c].pc = "idle"

\* ------------------------------------------- http_server.py: the objects
\* the MetricsHTTPServer objects of the process; all have the same host
Servers == {1, 2}

Socks == 1..MaxBinds

DefaultPort == 9090    \* http_server.py:53  port: int = 9090

\* port 0 given to bind(): the system picks a free port
AnyPort == 0

\* the port the system picks for the HTTPServer object l bound to port 0
EphemeralPort(l) == 32768 + l

\* built    __init__ has run
\* port     self.port
\* exporter self.exporter, a PrometheusExporter of its own (named by the
\*          server; 0 before __init__)
\* server   self.server, the id of an HTTPServer object, 0 for None
\* thread   self.thread, named by the HTTPServer object whose serve_forever it
\*          runs, 0 for None
NoServer == [built |-> FALSE, port |-> AnyPort, exporter |-> 0, server |-> 0,
             thread |-> 0]

\* MetricsHTTPServer.__init__(host, port)
NewServer(s, p) == [built |-> TRUE, port |-> p, exporter |-> s, server |-> 0,
                    thread |-> 0]

\* An HTTPServer object.  state: "none" not created, "bound" listening and
\* serve_forever not running, "serving" listening and serve_forever running,
\* "stopped" listening and serve_forever ended, "closed" after server_close()
NoSock == [owner |-> 0, port |-> AnyPort, state |-> "none"]

\* the listening socket of the HTTPServer object l is open
Listening(l) == socks[l].state \in {"bound", "serving", "stopped"}

\* bind((host, p)) fails with OSError(EADDRINUSE): p is a port of its own and
\* a listening socket has it
PortInUse(p) == p # AnyPort /\ \E l \in Socks : Listening(l) /\ socks[l].port = p

\* server s has a listening socket
Bound(s) == \E l \in Socks : Listening(l) /\ socks[l].owner = s

\* pc  where the caller is in start() or stop() ("idle" between calls)
\* op  the call, srv the server it is made on
\* out how the last call ended: "ok" it returned, "OSError" it raised
NoHCall == [pc |-> "idle", op |-> "none", srv |-> 0, out |-> "none"]

\* via: the HTTPServer object that took the request, 0 for one the embedding
\* program made itself with MetricsHandler as its handler class
NoResp == [path |-> "", via |-> 0, status |-> 0, ctype |-> "", body |-> <<>>]

\* ------------------------------------------ collector.py: the objects
\* the threads that call record_operation
Writers == {1, 2}

\* seconds the clock advances in one step
TickSeconds == 5

\* ErrorCategory: the buckets failures are counted in
Categories == {"timeout", "unknown"}

\* the classification of a failure by its error_message
Categorize(msg) == IF msg = "timeout" THEN "timeout" ELSE "unknown"

\* the OperationRecords the writers hand in: three that pass validation (a
\* success, a timeout, a failure of no known category with nothing
\* transferred) and two that do not
NoRecord == [success |-> FALSE, duration |-> 0, size_bytes |-> 0,
             error_message |-> ""]

RecordInputs ==
    {[success |-> TRUE, duration |-> 50, size_bytes |-> 10240,
      error_message |-> ""],
     [success |-> FALSE, duration |-> 50, size_bytes |-> 10240,
      error_message |-> "timeout"],
     [success |-> FALSE, duration |-> 0, size_bytes |-> 0,
      error_message |-> "boom"],
     [success |-> TRUE, duration |-> -1, size_bytes |-> 10240,
      error_message |-> ""],
     [success |-> FALSE, duration |-> 50, size_bytes |-> -1,
      error_message |-> "timeout"]}

\* record_operation: duration >= 0 and size_bytes >= 0
Valid(rec) == rec.duration >= 0 /\ rec.size_bytes >= 0

\* An AggregationWindow opened at time t; end is the time it was closed at
\* (the opening time while it is open).  The duration samples are left out:
\* no property below reads them.
NewWindow(t) == [start |-> t, end |-> t, closed |-> FALSE, count |-> 0,
                 success_count |-> 0, total_bytes |-> 0,
                 error_counts |-> [c \in Categories |-> 0]]

\* the window w closed at time t
Close(w, t) == [w EXCEPT !.end = t, !.closed = TRUE]

\* the window is older than its configured length
Expired(w, t) == t > w.start + aggregation_window_seconds

RECURSIVE SumSeq(_)
SumSeq(q) == IF Len(q) = 0 THEN 0 ELSE q[1] + SumSeq(Tail(q))

\* AggregatedMetrics over the windows ws: the counts and sums of the run
Aggregate(ws) ==
    LET errs == [c \in Categories |->
                    SumSeq([i \in 1..Len(ws) |-> ws[i].error_counts[c]])]
    IN  [total |-> SumSeq([i \in 1..Len(ws) |-> ws[i].count]),
         success_count |-> SumSeq([i \in 1..Len(ws) |-> ws[i].success_count]),
         failure_count |-> errs["timeout"] + errs["unknown"],
         total_bytes |-> SumSeq([i \in 1..Len(ws) |-> ws[i].total_bytes]),
         error_counts |-> errs]

\* the summary of the run: history and the current window
Summary == Aggregate(Append(history, window))

\* pc   where the writer is in record_operation ("idle" between calls: the
\*      call returned, no error reaches the caller)
\* rec  the record it handed in (NoRecord between calls)
NoWrite == [pc |-> "idle", rec |-> NoRecord]

\* pc     where the reader is in get_summary ("idle" between calls, "done"
\*        when the call has returned and the caller holds the result)
\* before the number of records taken in when the call began
\* result the summary the call returned
NoRead == [pc |-> "idle", before |-> 0, result |-> Aggregate(<<>>)]

\* the records that pass validation
ValidRecords == {rec \in RecordInputs : Valid(rec)}

\* the multiset b of records with one more rec
Counted(b, rec) ==
    IF rec \in DOMAIN b THEN [b EXCEPT ![rec] = @ + 1] ELSE b @@ (rec :> 1)

\* ------------------------------ prometheus_exporter.py: the objects
Exporters == {1, 2}

\* what a record counts as in the exposition text
Outcomes == {"success", "timeout", "unknown"}

\* the order the labels are rendered in
LabelOrder == <<"success", "timeout", "unknown">>

\* ------------------------------- s3_workload.py, s3_read_overload.py: objects
\* None where a text or an exception is expected (no text of the code is
\* empty)
None == <<>>

\* bytes, by their length; NoData is None where bytes are expected
NoData == [none |-> TRUE, len |-> 0]

Bytes(n) == [none |-> FALSE, len |-> n]

\* the sizes of the test objects, and the lengths get_object may return
ObjectSizes == {1024, 2048}

DataLens == {0, 1024, 2048}

\* the lists the module global test_objects is set to: the size_bytes of
\* each object, its key being its place in the list
TestObjectLists == {<<>>, <<1024>>, <<2048, 1024>>, <<2048, 1024, 1024>>}

\* self.get_object of an S3ReadOverloadUser: the classes define none
\* (s3_workload.py:138-189, s3_read_overload.py:240-408); the tests set a
\* Mock on the object, ret is what it returns
NoGetObject == [set |-> FALSE, ret |-> NoData]

MockGetObject(d) == [set |-> TRUE, ret |-> d]

\* fn        the function called last ("none" before the first call)
\* out       how it ended: "returned" or the exception that left it
\* fails     the driver failed in it (S3Client calls)
\* events    request events it fired, metrics  metrics it recorded
\* listed    test_objects was not empty when it was called, collector
\*           metrics_collector was not None (download_object)
\* expected  size_bytes of the object selected, data what get_object returned
\* small     random.random() < 0.8 (_select_object_weighted)
\* driver    what the driver did (S3Client calls)
\* ret       what the call returned: None, or the value in a tuple
NoTask == [fn |-> "none", out |-> "none", fails |-> FALSE, events |-> 0,
           metrics |-> 0, listed |-> FALSE, collector |-> FALSE,
           expected |-> 0, data |-> NoData, small |-> FALSE,
           driver |-> "none", ret |-> None]

\* fn         the listener called last ("none" before the first call)
\* out        how it ended: "returned" or the exception that left it
\* n          NUM_OBJECTS
\* outs       what put_object or delete_object returned, call by call
\* log        the calls it made, in order: "delete", "finalize", "stop"
NoHook == [fn |-> "none", out |-> "none", n |-> 0, outs |-> <<>>,
           log |-> <<>>]

Init ==
    /\ pidFile = NoFile
    /\ stateFile = NoState
    /\ sockFile = FALSE
    /\ proc = [p \in Pids |-> NoProc]
    /\ nextPid = 1
    /\ manual = 0
    /\ call = [c \in Callers |-> NoCall]
    /\ mserver = [s \in Servers |-> NoServer]
    /\ socks = [l \in Socks |-> NoSock]
    /\ nextSock = 1
    /\ handlerExp = 0
    /\ ingested = [s \in Servers |-> 0]
    /\ hcall = NoHCall
    /\ resp = NoResp
    /\ collector = [clock |-> 0, window |-> NewWindow(0), history |-> <<>>,
                    lock |-> 0, writer |-> [w \in Writers |-> NoWrite],
                    reader |-> NoRead, finalized |-> 0,
                    accepted |-> <<>>, writes |-> 0]
    /\ exporters = [fed |-> [e \in Exporters |-> <<>>],
                    scrapes |-> [e \in Exporters |-> 0], exported |-> {}]
    /\ scenario = [test_objects |-> <<>>, metrics_collector |-> FALSE,
                   get_object |-> NoGetObject, fired |-> <<>>,
                   recorded |-> <<>>, task |-> NoTask, tasks |-> 0,
                   S3Workload |-> "class", metrics_server |-> FALSE,
                   hook |-> NoHook, runs |-> 0, uploaded_objects |-> 0,
                   object_keys |-> 0]

\* ------------------------------------------------------ MetricsDaemon calls
Ops == {"start", "stop", "is_running", "cleanup_stale_files", "get_status"}

NoneAlive == \A p \in Pids : ~Alive(p)

\* calls begun by all callers
RECURSIVE CallsOf(_)
CallsOf(cs) ==
    IF cs = {} THEN 0
    ELSE LET c == CHOOSE x \in cs : TRUE IN call[c].calls + CallsOf(cs \ {c})

\* A caller enters a call.  start() is entered only while a pid is left for
\* its Popen; counted calls are limited to MaxCalls in all.
Begin(c, o, counted) ==
    /\ call[c].pc = "idle"
    /\ o = "start" => nextPid <= MaxSpawn
    /\ counted => CallsOf(Callers) < MaxCalls
    /\ call' = [call EXCEPT ![c] =
                  [NoCall EXCEPT !.pc = IF o = "cleanup_stale_files" THEN "cl_exists"
                                                                    ELSE "ir_exists",
                                 !.op = o,
                                 !.result = Outcome("pending"),
                                 !.calls = IF counted THEN call[c].calls + 1
                                                      ELSE call[c].calls]]
    /\ UNCHANGED <<fileVars, proc, nextPid, manual, nonDaemonVars>>

\* the caller goes on to the next step of its call
Goto(c, l) == call' = [call EXCEPT ![c].pc = l]

\* the call of caller c ends with outcome r; its local variables are gone
Return(c, r) ==
    call' = [call EXCEPT ![c] = [NoCall EXCEPT !.op = call[c].op, !.result = r,
                                               !.calls = call[c].calls]]

\* mutant of IrReturn: start() goes on to its Popen whatever is_running() said
IrReturn_StartUnchecked(c, v) ==
    CASE call[c].op = "is_running" ->
            Return(c, Outcome(IF v THEN "True" ELSE "False"))
      [] call[c].op = "start" /\ call[c].child = 0 -> Goto(c, "st_spawn")
      [] call[c].op = "start" /\ call[c].child # 0 ->
            Return(c, Outcome(IF v THEN "ok" ELSE "StartFailed"))
      [] call[c].op = "stop" ->
            IF v THEN Goto(c, "sp_read") ELSE Return(c, Outcome("NotRunning"))
      [] call[c].op = "get_status" ->
            IF v THEN Goto(c, "gs_exists")
                 ELSE Return(c, [out |-> "status",
                                 status |-> [NoStatus EXCEPT !.shape = "stopped"]])

\* is_running() returns v to the code that called it: daemon.py:33 (start
\* before Popen), :75 (start after the sleep), :80 (stop), :144 (get_status),
\* or the caller of is_running() itself
IrReturn(c, v) ==
    CASE call[c].op = "is_running" ->
            Return(c, Outcome(IF v THEN "True" ELSE "False"))
      [] call[c].op = "start" /\ call[c].child = 0 ->
            IF v THEN Return(c, Outcome("AlreadyRunning")) ELSE Goto(c, "st_spawn")
      [] call[c].op = "start" /\ call[c].child # 0 ->
            Return(c, Outcome(IF v THEN "ok" ELSE "StartFailed"))
      [] call[c].op = "stop" ->
            IF v THEN Goto(c, "sp_read") ELSE Return(c, Outcome("NotRunning"))
      [] call[c].op = "get_status" ->
            IF v THEN Goto(c, "gs_exists")
                 ELSE Return(c, [out |-> "status",
                                 status |-> [NoStatus EXCEPT !.shape = "stopped"]])

\* mutant of IrExists: an existing PID file is taken for a running daemon
IrExists_TrueIfExists(c) ==
    /\ call[c].pc = "ir_exists"
    /\ IrReturn(c, pidFile.exists)
    /\ UNCHANGED <<fileVars, proc, nextPid, manual, nonDaemonVars>>

\* is_running: if not self.pid_file.exists(): return False
IrExists(c) ==
    /\ call[c].pc = "ir_exists"
    /\ IF pidFile.exists THEN Goto(c, "ir_read") ELSE IrReturn(c, FALSE)
    /\ UNCHANGED <<fileVars, proc, nextPid, manual, nonDaemonVars>>

\* is_running: pid = int(self.pid_file.read_text()); a missing file (OSError)
\* and text that is no number (ValueError) go to the except clause
IrRead(c) ==
    /\ call[c].pc = "ir_read"
    /\ IF pidFile.exists /\ IntParses(pidFile.text)
       THEN call' = [call EXCEPT ![c].pc = "ir_kill",
                                 ![c].pid = IntOfStr(pidFile.text)]
       ELSE Goto(c, "ir_unlink")
    /\ UNCHANGED <<fileVars, proc, nextPid, manual, nonDaemonVars>>

\* mutant of IrKill: the pid is not probed
IrKill_NoProbe(c) ==
    /\ call[c].pc = "ir_kill"
    /\ IrReturn(c, TRUE)
    /\ UNCHANGED <<fileVars, proc, nextPid, manual, nonDaemonVars>>

\* is_running: os.kill(pid, 0); return True, OSError goes to the except clause
IrKill(c) ==
    /\ call[c].pc = "ir_kill"
    /\ IF Alive(call[c].pid) THEN IrReturn(c, TRUE) ELSE Goto(c, "ir_unlink")
    /\ UNCHANGED <<fileVars, proc, nextPid, manual, nonDaemonVars>>

\* mutant of IrUnlink: the except clause returns True
IrUnlink_ReturnsTrue(c) ==
    /\ call[c].pc = "ir_unlink"
    /\ pidFile' = NoFile
    /\ IrReturn(c, TRUE)
    /\ UNCHANGED <<stateFile, sockFile, proc, nextPid, manual, nonDaemonVars>>

\* is_running: self.pid_file.unlink(missing_ok=True); return False
IrUnlink(c) ==
    /\ call[c].pc = "ir_unlink"
    /\ pidFile' = NoFile
    /\ IrReturn(c, FALSE)
    /\ UNCHANGED <<stateFile, sockFile, proc, nextPid, manual, nonDaemonVars>>

\* write_text step 1, open(path, "w"): the file exists and is empty
OpenForWrite(f) == TextFile(<<>>)

\* write_text step 2, write(text) and close: the text is in the file, unless
\* the path was unlinked after the open, when it goes to the unlinked file
WriteText(f, t) == IF f.exists THEN TextFile(t) ELSE f

\* start: subprocess.Popen(cmd, ..., start_new_session=True); the command
\* line carries --state-file and no --pid-file
StSpawn(c) ==
    /\ call[c].pc = "st_spawn"
    /\ nextPid <= MaxSpawn
    /\ proc' = [proc EXCEPT ![nextPid] = NewProc(FALSE)]
    /\ call' = [call EXCEPT ![c].pc = "st_wpid_open", ![c].child = nextPid]
    /\ nextPid' = nextPid + 1
    /\ UNCHANGED <<fileVars, manual, nonDaemonVars>>

\* start: self.pid_file.write_text(str(process.pid)), the open
StOpenPid(c) ==
    /\ call[c].pc = "st_wpid_open"
    /\ pidFile' = OpenForWrite(pidFile)
    /\ Goto(c, "st_wpid")
    /\ UNCHANGED <<stateFile, sockFile, proc, nextPid, manual, nonDaemonVars>>

\* start: self.pid_file.write_text(str(process.pid)), the write
StWritePid(c) ==
    /\ call[c].pc = "st_wpid"
    /\ pidFile' = WriteText(pidFile, StrOfInt(call[c].child))
    /\ Goto(c, "st_wstate_open")
    /\ UNCHANGED <<stateFile, sockFile, proc, nextPid, manual, nonDaemonVars>>

\* start: self.state_file.write_text(json.dumps(state, indent=2)), the open
StOpenState(c) ==
    /\ call[c].pc = "st_wstate_open"
    /\ stateFile' = EmptyState
    /\ Goto(c, "st_wstate")
    /\ UNCHANGED <<pidFile, sockFile, proc, nextPid, manual, nonDaemonVars>>

\* mutant of StWriteState: the state document carries the parent's idea of
\* the next pid instead of process.pid
StWriteState_WrongPid(c) ==
    /\ call[c].pc = "st_wstate"
    /\ stateFile' = IF stateFile.exists
                    THEN JsonState([pid |-> nextPid, host |-> Host,
                                    port |-> Port, start_time |-> Now])
                    ELSE stateFile
    /\ Goto(c, "st_sleep")
    /\ UNCHANGED <<pidFile, sockFile, proc, nextPid, manual, nonDaemonVars>>

\* start: state = {pid, host, port, start_time}; write_text, the write
StWriteState(c) ==
    /\ call[c].pc = "st_wstate"
    /\ stateFile' = IF stateFile.exists
                    THEN JsonState([pid |-> call[c].child, host |-> Host,
                                    port |-> Port, start_time |-> Now])
                    ELSE stateFile
    /\ Goto(c, "st_sleep")
    /\ UNCHANGED <<pidFile, sockFile, proc, nextPid, manual, nonDaemonVars>>

\* start: time.sleep(1), then is_running() is called
StSleep(c) ==
    /\ call[c].pc = "st_sleep"
    /\ Goto(c, "ir_exists")
    /\ UNCHANGED <<fileVars, proc, nextPid, manual, nonDaemonVars>>

\* stop: pid = int(self.pid_file.read_text()), outside the try: a missing
\* file or text that is no number raises out of stop()
SpRead(c) ==
    /\ call[c].pc = "sp_read"
    /\ IF ~pidFile.exists THEN Return(c, Outcome("FileNotFoundError"))
       ELSE IF ~IntParses(pidFile.text) THEN Return(c, Outcome("ValueError"))
       ELSE call' = [call EXCEPT ![c].pc = "sp_term",
                                 ![c].pid = IntOfStr(pidFile.text)]
    /\ UNCHANGED <<fileVars, proc, nextPid, manual, nonDaemonVars>>

\* stop: os.kill(pid, signal.SIGTERM); OSError becomes
\* RuntimeError("Failed to stop server")
SpTerm(c) ==
    /\ call[c].pc = "sp_term"
    /\ IF Alive(call[c].pid)
       THEN /\ proc' = [proc EXCEPT ![call[c].pid].pend = @ \cup {"TERM"}]
            /\ Goto(c, "sp_poll")
       ELSE /\ Return(c, Outcome("StopFailed"))
            /\ UNCHANGED proc
    /\ UNCHANGED <<fileVars, nextPid, manual, nonDaemonVars>>

\* mutant of SpPoll: the wait loop has no bound, it polls until the process
\* is gone
SpPoll_UntilGone(c) ==
    /\ call[c].pc = "sp_poll"
    /\ IF Alive(call[c].pid) THEN UNCHANGED call ELSE Goto(c, "sp_unl_pid")
    /\ UNCHANGED <<fileVars, proc, nextPid, manual, nonDaemonVars>>

\* stop: for _ in range(50): os.kill(pid, 0); time.sleep(0.1), OSError breaks;
\* after the loop, however it ended, the files are unlinked
SpPoll(c) ==
    /\ call[c].pc = "sp_poll"
    /\ IF call[c].polls < StopPolls /\ Alive(call[c].pid)
       THEN call' = [call EXCEPT ![c].polls = @ + 1]
       ELSE Goto(c, "sp_unl_pid")
    /\ UNCHANGED <<fileVars, proc, nextPid, manual, nonDaemonVars>>

\* mutant of SpUnlinkPid: the PID file is not unlinked
SpUnlinkPid_Skipped(c) ==
    /\ call[c].pc = "sp_unl_pid"
    /\ Goto(c, "sp_unl_state")
    /\ UNCHANGED <<fileVars, proc, nextPid, manual, nonDaemonVars>>

\* stop: self.pid_file.unlink(missing_ok=True)
SpUnlinkPid(c) ==
    /\ call[c].pc = "sp_unl_pid"
    /\ pidFile' = NoFile
    /\ Goto(c, "sp_unl_state")
    /\ UNCHANGED <<stateFile, sockFile, proc, nextPid, manual, nonDaemonVars>>

\* stop: self.state_file.unlink(missing_ok=True); stop() returns
SpUnlinkState(c) ==
    /\ call[c].pc = "sp_unl_state"
    /\ stateFile' = NoState
    /\ Return(c, Outcome("ok"))
    /\ UNCHANGED <<pidFile, sockFile, proc, nextPid, manual, nonDaemonVars>>

\* cleanup_stale_files: if self.pid_file.exists()
ClExists(c) ==
    /\ call[c].pc = "cl_exists"
    /\ Goto(c, IF pidFile.exists THEN "cl_read" ELSE "cl_unl_state")
    /\ UNCHANGED <<fileVars, proc, nextPid, manual, nonDaemonVars>>

\* cleanup_stale_files: pid = int(self.pid_file.read_text()); ValueError and
\* OSError go to the outer except clause, which unlinks the PID file
ClRead(c) ==
    /\ call[c].pc = "cl_read"
    /\ IF pidFile.exists /\ IntParses(pidFile.text)
       THEN call' = [call EXCEPT ![c].pc = "cl_kill",
                                 ![c].pid = IntOfStr(pidFile.text)]
       ELSE Goto(c, "cl_unl_pid")
    /\ UNCHANGED <<fileVars, proc, nextPid, manual, nonDaemonVars>>

\* cleanup_stale_files: os.kill(pid, 0); return when the process exists
ClKill(c) ==
    /\ call[c].pc = "cl_kill"
    /\ IF Alive(call[c].pid) THEN Return(c, Outcome("ok")) ELSE Goto(c, "cl_unl_pid")
    /\ UNCHANGED <<fileVars, proc, nextPid, manual, nonDaemonVars>>

\* cleanup_stale_files: self.pid_file.unlink(missing_ok=True)
ClUnlinkPid(c) ==
    /\ call[c].pc = "cl_unl_pid"
    /\ pidFile' = NoFile
    /\ Goto(c, "cl_unl_state")
    /\ UNCHANGED <<stateFile, sockFile, proc, nextPid, manual, nonDaemonVars>>

\* cleanup_stale_files: self.state_file.unlink(missing_ok=True)
ClUnlinkState(c) ==
    /\ call[c].pc = "cl_unl_state"
    /\ stateFile' = NoState
    /\ Goto(c, "cl_unl_sock")
    /\ UNCHANGED <<pidFile, sockFile, proc, nextPid, manual, nonDaemonVars>>

\* cleanup_stale_files: socket_path.unlink(missing_ok=True); returns
ClUnlinkSock(c) ==
    /\ call[c].pc = "cl_unl_sock"
    /\ sockFile' = FALSE
    /\ Return(c, Outcome("ok"))
    /\ UNCHANGED <<pidFile, stateFile, proc, nextPid, manual, nonDaemonVars>>

\* get_status: if self.state_file.exists()
GsExists(c) ==
    /\ call[c].pc = "gs_exists"
    /\ Goto(c, IF stateFile.exists THEN "gs_read" ELSE "gs_fallback")
    /\ UNCHANGED <<fileVars, proc, nextPid, manual, nonDaemonVars>>

\* get_status: state = json.loads(self.state_file.read_text());
\* state["running"] = True; JSONDecodeError and OSError fall through
GsRead(c) ==
    /\ call[c].pc = "gs_read"
    /\ IF stateFile.exists /\ stateFile.parses
       THEN Return(c, [out |-> "status",
                       status |-> [shape |-> "state", running |-> TRUE,
                                   pid |-> stateFile.doc.pid,
                                   host |-> stateFile.doc.host,
                                   port |-> stateFile.doc.port,
                                   start_time |-> stateFile.doc.start_time]])
       ELSE Goto(c, "gs_fallback")
    /\ UNCHANGED <<fileVars, proc, nextPid, manual, nonDaemonVars>>

\* get_status: return {"running": True, "pid": int(self.pid_file.read_text()),
\* "host": self.host, "port": self.port}; the read is not guarded
GsFallback(c) ==
    /\ call[c].pc = "gs_fallback"
    /\ Return(c, IF ~pidFile.exists THEN Outcome("FileNotFoundError")
                 ELSE IF ~IntParses(pidFile.text) THEN Outcome("ValueError")
                 ELSE [out |-> "status",
                       status |-> [shape |-> "fallback", running |-> TRUE,
                                   pid |-> IntOfStr(pidFile.text),
                                   host |-> Host, port |-> Port,
                                   start_time |-> 0]])
    /\ UNCHANGED <<fileVars, proc, nextPid, manual, nonDaemonVars>>

\* ------------------------------------------- main() of server_daemon.py
\* main() runs only while signal_handler does not (both are on the main thread)
InMain(p, states) == proc[p].st \in states /\ proc[p].h = "none"

\* main: args = parser.parse_args(); if args.pid_file: write_text, the open
ChildArgs(p) ==
    /\ InMain(p, {"args"})
    /\ IF proc[p].pidArg
       THEN /\ pidFile' = OpenForWrite(pidFile)
            /\ proc' = [proc EXCEPT ![p].st = "pidw"]
       ELSE /\ proc' = [proc EXCEPT ![p].st = "ctor"]
            /\ UNCHANGED pidFile
    /\ UNCHANGED <<stateFile, sockFile, nextPid, manual, call, nonDaemonVars>>

\* main: args.pid_file.write_text(str(os.getpid())), the write
ChildWritePid(p) ==
    /\ InMain(p, {"pidw"})
    /\ pidFile' = WriteText(pidFile, StrOfInt(p))
    /\ proc' = [proc EXCEPT ![p].st = "ctor"]
    /\ UNCHANGED <<stateFile, sockFile, nextPid, manual, call, nonDaemonVars>>

\* main: server = MetricsHTTPServer(host=, port=, socket_path=) raises: it is
\* before cleanup() is defined and outside the try, so the exception ends the
\* process with status 1
ChildCtorRaise(p) ==
    /\ InMain(p, {"ctor"})
    /\ proc' = [proc EXCEPT ![p] = Exited(@, 1)]
    /\ UNCHANGED <<fileVars, nextPid, manual, call, nonDaemonVars>>

\* main: server = MetricsHTTPServer(...) returns (SpecChild only)
ChildCtorReturn(p) ==
    /\ InMain(p, {"ctor"})
    /\ proc' = [proc EXCEPT ![p].st = "sig_term"]
    /\ UNCHANGED <<fileVars, nextPid, manual, call, nonDaemonVars>>

\* main: signal.signal(signal.SIGTERM, signal_handler)
ChildInstallTerm(p) ==
    /\ InMain(p, {"sig_term"})
    /\ proc' = [proc EXCEPT ![p].st = "sig_int", ![p].hand = @ \cup {"TERM"}]
    /\ UNCHANGED <<fileVars, nextPid, manual, call, nonDaemonVars>>

\* main: signal.signal(signal.SIGINT, signal_handler); the try is entered
ChildInstallInt(p) ==
    /\ InMain(p, {"sig_int"})
    /\ proc' = [proc EXCEPT ![p].st = "start_bind", ![p].hand = @ \cup {"INT"}]
    /\ UNCHANGED <<fileVars, nextPid, manual, call, nonDaemonVars>>

\* MetricsHTTPServer.start: self.server = HTTPServer((host, port), handler);
\* the bind fails (OSError) when the port is taken, and main's
\* except Exception clause runs
ChildBind(p) ==
    /\ InMain(p, {"start_bind"})
    /\ \E bound \in BOOLEAN :
         proc' = [proc EXCEPT ![p].st = IF bound THEN "start_thread" ELSE "exc_cl_pid",
                              ![p].srv = IF bound THEN "bound" ELSE "none"]
    /\ UNCHANGED <<fileVars, nextPid, manual, call, nonDaemonVars>>

\* MetricsHTTPServer.start: the thread running serve_forever is started and
\* start() returns at once; main goes on to the finally clause
ChildThread(p) ==
    /\ InMain(p, {"start_thread"})
    /\ proc' = [proc EXCEPT ![p].st = "fin_cl_pid", ![p].srv = "serving",
                            ![p].code = 0]
    /\ UNCHANGED <<fileVars, nextPid, manual, call, nonDaemonVars>>

\* cleanup: if args.pid_file and args.pid_file.exists(): unlink
ChildCleanupPid(p) ==
    /\ InMain(p, {"exc_cl_pid", "fin_cl_pid"})
    /\ pidFile' = IF proc[p].pidArg THEN NoFile ELSE pidFile
    /\ proc' = [proc EXCEPT ![p].st = IF @ = "exc_cl_pid" THEN "exc_cl_state"
                                                          ELSE "fin_cl_state"]
    /\ UNCHANGED <<stateFile, sockFile, nextPid, manual, call, nonDaemonVars>>

\* cleanup: if args.state_file and args.state_file.exists(): unlink; in the
\* except clause sys.exit(1) follows, which the finally clause intercepts
ChildCleanupState(p) ==
    /\ InMain(p, {"exc_cl_state", "fin_cl_state"})
    /\ stateFile' = NoState
    /\ proc' = [proc EXCEPT ![p].st = IF @ = "exc_cl_state" THEN "fin_cl_pid"
                                                            ELSE "fin_exit",
                            ![p].code = IF proc[p].st = "exc_cl_state" THEN 1 ELSE @]
    /\ UNCHANGED <<pidFile, sockFile, nextPid, manual, call, nonDaemonVars>>

\* main ends after the finally clause: the process exits with the status of
\* the exit in progress (0 when main returns)
ChildExit(p) ==
    /\ InMain(p, {"fin_exit"})
    /\ proc' = [proc EXCEPT ![p] = Exited(@, @.code)]
    /\ UNCHANGED <<fileVars, nextPid, manual, call, nonDaemonVars>>

\* A pending signal is delivered.  No handler installed: SIGTERM kills the
\* process, SIGINT raises KeyboardInterrupt, which nothing catches before the
\* try.  Handler installed: signal_handler starts (again, when it was running;
\* a handler blocked in shutdown() stays blocked).
SigDeliver(p, s) ==
    /\ Alive(p)
    /\ s \in proc[p].pend
    /\ proc' = [proc EXCEPT ![p] =
                  IF s \notin @.hand
                  THEN Exited(@, 128 + (IF s = "TERM" THEN 15 ELSE 2))
                  ELSE [@ EXCEPT !.pend = @ \ {s},
                                 !.h = IF @ = "hung" THEN "hung" ELSE "h_stop"]]
    /\ UNCHANGED <<fileVars, nextPid, manual, call, nonDaemonVars>>

\* signal_handler: server.stop(): if self.server: shutdown(); server_close().
\* shutdown() waits for serve_forever to end, so it never returns when
\* serve_forever was never started
HandlerStop(p) ==
    /\ Alive(p)
    /\ proc[p].h = "h_stop"
    /\ proc' = [proc EXCEPT ![p].h = IF proc[p].srv = "bound" THEN "hung"
                                                             ELSE "h_cl_pid",
                            ![p].srv = IF @ = "serving" THEN "closed" ELSE @]
    /\ UNCHANGED <<fileVars, nextPid, manual, call, nonDaemonVars>>

\* signal_handler: cleanup(), the PID file
HandlerCleanupPid(p) ==
    /\ Alive(p)
    /\ proc[p].h = "h_cl_pid"
    /\ pidFile' = IF proc[p].pidArg THEN NoFile ELSE pidFile
    /\ proc' = [proc EXCEPT ![p].h = "h_cl_state"]
    /\ UNCHANGED <<stateFile, sockFile, nextPid, manual, call, nonDaemonVars>>

\* signal_handler: cleanup(), the state file
HandlerCleanupState(p) ==
    /\ Alive(p)
    /\ proc[p].h = "h_cl_state"
    /\ stateFile' = NoState
    /\ proc' = [proc EXCEPT ![p].h = "h_exit"]
    /\ UNCHANGED <<pidFile, sockFile, nextPid, manual, call, nonDaemonVars>>

\* signal_handler: sys.exit(0).  SystemExit leaves the handler; inside main's
\* try the finally clause runs cleanup() again before the process exits
HandlerExit(p) ==
    /\ Alive(p)
    /\ proc[p].h = "h_exit"
    /\ proc' = [proc EXCEPT ![p] =
                  IF @.st \in {"start_bind", "start_thread", "exc_cl_pid", "exc_cl_state"}
                  THEN [@ EXCEPT !.h = "none", !.st = "fin_cl_pid", !.code = 0]
                  ELSE Exited(@, 0)]
    /\ UNCHANGED <<fileVars, nextPid, manual, call, nonDaemonVars>>

\* ------------------------------------------------------------ environment
\* someone writes the PID file by hand, between the calls
EnvWritePidFile(t) ==
    /\ AllIdle
    /\ manual < MaxManual
    /\ manual' = manual + 1
    /\ pidFile' = TextFile(t)
    /\ UNCHANGED <<stateFile, sockFile, proc, nextPid, call, nonDaemonVars>>

\* the state file is damaged by hand, between the calls: it is left empty,
\* which json.loads rejects
EnvCorruptState ==
    /\ AllIdle
    /\ manual < MaxManual
    /\ stateFile.exists /\ stateFile.parses
    /\ manual' = manual + 1
    /\ stateFile' = EmptyState
    /\ UNCHANGED <<pidFile, sockFile, proc, nextPid, call, nonDaemonVars>>

\* something creates the socket path
EnvTouchSocket ==
    /\ ~sockFile
    /\ sockFile' = TRUE
    /\ UNCHANGED <<pidFile, stateFile, proc, nextPid, manual, call, nonDaemonVars>>

\* python -m chopsticks.metrics.server_daemon --pid-file ... --state-file ...
\* is run by hand, between the calls, when no other server process runs
LaunchStandalone ==
    /\ AllIdle
    /\ NoneAlive
    /\ nextPid <= MaxSpawn
    /\ proc' = [proc EXCEPT ![nextPid] = NewProc(TRUE)]
    /\ nextPid' = nextPid + 1
    /\ UNCHANGED <<fileVars, manual, call, nonDaemonVars>>

\* someone sends SIGTERM or SIGINT to a process
EnvSignal(p, s) ==
    /\ Alive(p)
    /\ s \notin proc[p].pend
    /\ proc' = [proc EXCEPT ![p].pend = @ \cup {s}]
    /\ UNCHANGED <<fileVars, nextPid, manual, call, nonDaemonVars>>

\* ------------------------------------------- http_server.py: the handler
\* request paths: the two routes and two that are neither
Paths == {"/", "/metrics", "/metrics/", "/favicon.ico"}

\* b"# No metrics available\n"
NoMetricsBody == <<"#", " No metrics available", "\n">>

\* the static page of the route "/"
InfoPage == <<"<html>", "<head><title>Chopsticks Metrics</title></head>",
              "<body>", "<h1>Chopsticks Metrics Exporter</h1>",
              "<p><a href=/metrics>Metrics endpoint</a></p>", "</body>",
              "</html>">>

\* PrometheusExporter.export() for a collector that has taken in n records: a
\* placeholder comment when there is no data, else the counter line
Export(n) ==
    IF n = 0 THEN <<"#", " no data", "\n">>
    ELSE <<"chopsticks_operations_total", " ">> \o StrOfInt(n) \o <<"\n">>

\* mutant of do_GET: the metrics route is matched by prefix
do_GET_PrefixMatch(path, e) ==
    IF path \in {"/metrics", "/metrics/"}
    THEN [status |-> 200, ctype |-> "text/plain; version=0.0.4",
          body |-> IF e # 0 THEN Export(ingested[e]) ELSE NoMetricsBody]
    ELSE IF path = "/"
    THEN [status |-> 200, ctype |-> "text/html", body |-> InfoPage]
    ELSE [status |-> 404, ctype |-> "", body |-> <<>>]

\* mutant of do_GET: without an exporter nothing is written after the headers
do_GET_NoPlaceholder(path, e) ==
    IF path = "/metrics"
    THEN [status |-> 200, ctype |-> "text/plain; version=0.0.4",
          body |-> IF e # 0 THEN Export(ingested[e]) ELSE <<>>]
    ELSE IF path = "/"
    THEN [status |-> 200, ctype |-> "text/html", body |-> InfoPage]
    ELSE [status |-> 404, ctype |-> "", body |-> <<>>]

\* MetricsHandler.do_GET for self.path = path with the class attribute
\* exporter = e: status, Content-Type header ("" when none is sent) and body
do_GET(path, e) ==
    IF path = "/metrics"
    THEN [status |-> 200, ctype |-> "text/plain; version=0.0.4",
          body |-> IF e # 0 THEN Export(ingested[e]) ELSE NoMetricsBody]
    ELSE IF path = "/"
    THEN [status |-> 200, ctype |-> "text/html", body |-> InfoPage]
    ELSE [status |-> 404, ctype |-> "", body |-> <<>>]

\* the response record of a request for path taken by HTTPServer object l
Response(path, l) ==
    LET r == do_GET(path, handlerExp)
    IN  [path |-> path, via |-> l, status |-> r.status, ctype |-> r.ctype,
         body |-> r.body]

\* serve_forever of HTTPServer object l takes a GET request and its
\* MetricsHandler answers it
HandleGET(l, path) ==
    /\ socks[l].state = "serving"
    /\ resp' = Response(path, l)
    /\ UNCHANGED <<mserver, socks, nextSock, handlerExp, ingested, hcall, nonHttpVars>>

\* a GET request answered by a MetricsHandler of an HTTPServer the embedding
\* program made itself, while no MetricsHTTPServer has been started
PlainGET(path) ==
    /\ handlerExp = 0
    /\ resp' = Response(path, 0)
    /\ UNCHANGED <<mserver, socks, nextSock, handlerExp, ingested, hcall, nonHttpVars>>

\* the collector behind the exporter of server s takes in a record
Ingest(s) ==
    /\ mserver[s].built
    /\ ingested[s] < MaxRecords
    /\ ingested' = [ingested EXCEPT ![s] = @ + 1]
    /\ UNCHANGED <<mserver, socks, nextSock, handlerExp, hcall, resp, nonHttpVars>>

\* ------------------------------------- http_server.py: MetricsHTTPServer
\* MetricsHTTPServer(host, port): __init__
Construct(s, p) ==
    /\ hcall.pc = "idle"
    /\ ~mserver[s].built
    /\ mserver' = [mserver EXCEPT ![s] = NewServer(s, p)]
    /\ UNCHANGED <<socks, nextSock, handlerExp, ingested, hcall, resp, nonHttpVars>>

\* the caller enters start() or stop() of server s; start() is entered only
\* while an id is left for its HTTPServer object
HBegin(s, o) ==
    /\ hcall.pc = "idle"
    /\ mserver[s].built
    /\ o = "start" => nextSock <= MaxBinds
    /\ hcall' = [pc |-> IF o = "start" THEN "hs_exporter" ELSE "hp_test",
                 op |-> o, srv |-> s, out |-> "pending"]
    /\ UNCHANGED <<mserver, socks, nextSock, handlerExp, ingested, resp, nonHttpVars>>

\* the call in progress ends with outcome o
HReturn(o) == hcall' = [hcall EXCEPT !.pc = "idle", !.out = o]

\* start: MetricsHandler.exporter = self.exporter
HsExporter ==
    /\ hcall.pc = "hs_exporter"
    /\ handlerExp' = mserver[hcall.srv].exporter
    /\ hcall' = [hcall EXCEPT !.pc = "hs_bind"]
    /\ UNCHANGED <<mserver, socks, nextSock, ingested, resp, nonHttpVars>>

\* start: self.server = HTTPServer((self.host, self.port), MetricsHandler);
\* the constructor binds and listens, OSError leaves start()
HsBind ==
    /\ hcall.pc = "hs_bind"
    /\ LET s == hcall.srv
           p == mserver[s].port
       IN  IF PortInUse(p)
           THEN /\ HReturn("OSError")
                /\ UNCHANGED <<mserver, socks, nextSock>>
           ELSE /\ nextSock <= MaxBinds
                /\ socks' = [socks EXCEPT ![nextSock] =
                               [owner |-> s,
                                port |-> IF p = AnyPort THEN EphemeralPort(nextSock)
                                                        ELSE p,
                                state |-> "bound"]]
                /\ mserver' = [mserver EXCEPT ![s].server = nextSock]
                /\ nextSock' = nextSock + 1
                /\ hcall' = [hcall EXCEPT !.pc = "hs_thread"]
    /\ UNCHANGED <<handlerExp, ingested, resp, nonHttpVars>>

\* start: self.thread = threading.Thread(target=self.server.serve_forever,
\* daemon=True); self.thread.start(); start() returns
HsThread ==
    /\ hcall.pc = "hs_thread"
    /\ LET s == hcall.srv
       IN  /\ mserver' = [mserver EXCEPT ![s].thread = mserver[s].server]
           /\ socks' = [socks EXCEPT ![mserver[s].server].state = "serving"]
    /\ HReturn("ok")
    /\ UNCHANGED <<nextSock, handlerExp, ingested, resp, nonHttpVars>>

\* stop: if self.server: ... ; with self.server None stop() returns
HpTest ==
    /\ hcall.pc = "hp_test"
    /\ IF mserver[hcall.srv].server = 0 THEN HReturn("ok")
       ELSE hcall' = [hcall EXCEPT !.pc = "hp_shutdown"]
    /\ UNCHANGED <<mserver, socks, nextSock, handlerExp, ingested, resp, nonHttpVars>>

\* stop: self.server.shutdown(): serve_forever is told to end and shutdown()
\* waits until it has; it returns at once when serve_forever has ended
\* before, and never when serve_forever was never started
HpShutdown ==
    /\ hcall.pc = "hp_shutdown"
    /\ LET l == mserver[hcall.srv].server
       IN  /\ socks[l].state # "bound"
           /\ socks' = [socks EXCEPT ![l].state =
                          IF @ = "serving" THEN "stopped" ELSE @]
    /\ hcall' = [hcall EXCEPT !.pc = "hp_close"]
    /\ UNCHANGED <<mserver, nextSock, handlerExp, ingested, resp, nonHttpVars>>

\* stop: self.server.server_close(); stop() returns
HpClose ==
    /\ hcall.pc = "hp_close"
    /\ socks' = [socks EXCEPT ![mserver[hcall.srv].server].state = "closed"]
    /\ HReturn("ok")
    /\ UNCHANGED <<mserver, nextSock, handlerExp, ingested, resp, nonHttpVars>>

\* ------------------------------------- collector.py: MetricsCollector
RECURSIVE SumOver(_, _)
SumOver(S, f) ==
    IF S = {} THEN 0
    ELSE LET x == CHOOSE y \in S : TRUE IN f[x] + SumOver(S \ {x}, f)

\* the counts and sums of the multiset b of records, each record counted as
\* often as b holds it
Tally(b) ==
    LET failures(c) == {r \in DOMAIN b :
                           ~r.success /\ Categorize(r.error_message) = c}
        errs == [c \in Categories |-> SumOver(failures(c), b)]
    IN  [total |-> SumOver(DOMAIN b, b),
         success_count |-> SumOver({r \in DOMAIN b : r.success}, b),
         failure_count |-> SumOver({r \in DOMAIN b : ~r.success}, b),
         total_bytes |-> SumOver(DOMAIN b, [r \in DOMAIN b |-> b[r] * r.size_bytes]),
         error_counts |-> errs]

\* the clock advances; the exclusive section is short, no time passes in it
Tick ==
    /\ clock < MaxTicks * TickSeconds
    /\ lock = 0
    /\ collector' = [collector EXCEPT !.clock = @ + TickSeconds]
    /\ UNCHANGED nonCollVars

\* writer w calls record_operation(rec)
RoBegin(w, rec) ==
    /\ writer[w].pc = "idle"
    /\ writes < MaxWrites
    /\ collector' = [collector EXCEPT !.writer[w].pc = "validate",
                                      !.writer[w].rec = rec,
                                      !.writes = @ + 1]
    /\ UNCHANGED nonCollVars

\* mutant of RoValidate: every record goes on to be counted
RoValidate_NoCheck(w) ==
    /\ writer[w].pc = "validate"
    /\ collector' = [collector EXCEPT !.writer[w].pc = "lock"]
    /\ UNCHANGED nonCollVars

\* record_operation: the record is validated; a record that fails is dropped,
\* the ValidationError is logged and the call returns
RoValidate(w) ==
    /\ writer[w].pc = "validate"
    /\ collector' = IF Valid(writer[w].rec)
                    THEN [collector EXCEPT !.writer[w].pc = "lock"]
                    ELSE [collector EXCEPT !.writer[w] = NoWrite]
    /\ UNCHANGED nonCollVars

\* record_operation: the writer enters the exclusive section
RoLock(w) ==
    /\ writer[w].pc = "lock"
    /\ lock = 0
    /\ collector' = [collector EXCEPT !.lock = w, !.writer[w].pc = "rotate"]
    /\ UNCHANGED nonCollVars

\* mutant of RoRotate: the outgoing window is not appended to history
RoRotate_NoAppend(w) ==
    /\ writer[w].pc = "rotate"
    /\ collector' = [collector EXCEPT
           !.window = IF Expired(window, clock) THEN NewWindow(clock) ELSE @,
           !.writer[w].pc = "count"]
    /\ UNCHANGED nonCollVars

\* mutant of RoRotate: the outgoing window ends at its configured length
RoRotate_Gap(w) ==
    /\ writer[w].pc = "rotate"
    /\ collector' =
           IF Expired(window, clock)
           THEN [collector EXCEPT
                    !.history = Append(@,
                        Close(window, window.start + aggregation_window_seconds)),
                    !.window = NewWindow(clock),
                    !.writer[w].pc = "count"]
           ELSE [collector EXCEPT !.writer[w].pc = "count"]
    /\ UNCHANGED nonCollVars

\* record_operation, under the lock: when the current time exceeds
\* window.start + aggregation_window_seconds the window is closed and
\* appended to history and a fresh window takes its place
RoRotate(w) ==
    /\ writer[w].pc = "rotate"
    /\ collector' =
           IF Expired(window, clock)
           THEN [collector EXCEPT !.history = Append(@, Close(window, clock)),
                                  !.window = NewWindow(clock),
                                  !.writer[w].pc = "count"]
           ELSE [collector EXCEPT !.writer[w].pc = "count"]
    /\ UNCHANGED nonCollVars

\* record_operation, under the lock: count is incremented
RoCount(w) ==
    /\ writer[w].pc = "count"
    /\ collector' = [collector EXCEPT !.window.count = @ + 1,
                                      !.writer[w].pc = "sums"]
    /\ UNCHANGED nonCollVars

\* the window with the outcome and the size of rec added
Accumulate(win, rec) ==
    [win EXCEPT !.success_count = IF rec.success THEN @ + 1 ELSE @,
                !.total_bytes = @ + rec.size_bytes,
                !.error_counts =
                    IF rec.success THEN @
                    ELSE [@ EXCEPT ![Categorize(rec.error_message)] = @ + 1]]

\* mutant of RoSums: a failure is counted in no category
RoSums_NoCategory(w) ==
    /\ writer[w].pc = "sums"
    /\ LET rec == writer[w].rec
       IN  collector' = [collector EXCEPT
               !.window = [@ EXCEPT
                              !.success_count = IF rec.success THEN @ + 1 ELSE @,
                              !.total_bytes = @ + rec.size_bytes],
               !.accepted = Counted(@, rec),
               !.lock = 0,
               !.writer[w] = NoWrite]
    /\ UNCHANGED nonCollVars

\* mutant of RoSums: total_bytes is set to the size of the record
RoSums_LastWins(w) ==
    /\ writer[w].pc = "sums"
    /\ LET rec == writer[w].rec
       IN  collector' = [collector EXCEPT
               !.window = [Accumulate(@, rec) EXCEPT
                              !.total_bytes = rec.size_bytes],
               !.accepted = Counted(@, rec),
               !.lock = 0,
               !.writer[w] = NoWrite]
    /\ UNCHANGED nonCollVars

\* record_operation, under the lock: success_count or the counter of the
\* error category is incremented, the size is added to total_bytes; the lock
\* is released and the call returns
RoSums(w) ==
    /\ writer[w].pc = "sums"
    /\ LET rec == writer[w].rec
       IN  collector' = [collector EXCEPT !.window = Accumulate(@, rec),
                                          !.accepted = Counted(@, rec),
                                          !.lock = 0,
                                          !.writer[w] = NoWrite]
    /\ UNCHANGED nonCollVars

\* the reading thread calls get_summary()
SmBegin ==
    /\ reader.pc = "idle"
    /\ collector' = [collector EXCEPT !.reader =
           [NoRead EXCEPT !.pc = "read",
                          !.before = SumOver(DOMAIN accepted, accepted)]]
    /\ UNCHANGED nonCollVars

\* mutant of SmRead: the windows are read without the lock
SmRead_Unlocked ==
    /\ reader.pc = "read"
    /\ collector' = [collector EXCEPT !.reader.pc = "done",
                                      !.reader.result = Summary]
    /\ UNCHANGED nonCollVars

\* get_summary: the reader takes the lock, computes the summary of history
\* and the current window and releases the lock; the call returns
SmRead ==
    /\ reader.pc = "read"
    /\ lock = 0
    /\ collector' = [collector EXCEPT !.reader.pc = "done",
                                      !.reader.result = Summary]
    /\ UNCHANGED nonCollVars

\* the caller of get_summary is done with the summary it got
SmReturn ==
    /\ reader.pc = "done"
    /\ collector' = [collector EXCEPT !.reader = NoRead]
    /\ UNCHANGED nonCollVars

\* mutant of FnFinalize: every call closes the current window
FnFinalize_Again ==
    /\ lock = 0
    /\ collector' = [collector EXCEPT
           !.history = Append(@, Close(window, clock)),
           !.window = NewWindow(clock),
           !.finalized = IF @ = 0 THEN 1 ELSE 2]
    /\ UNCHANGED nonCollVars

\* finalize(), under the lock: the current window is closed into history,
\* unless finalize() has done so before
FnFinalize ==
    /\ lock = 0
    /\ collector' =
           IF finalized > 0
           THEN [collector EXCEPT !.finalized = 2]
           ELSE [collector EXCEPT !.history = Append(@, Close(window, clock)),
                                  !.window = NewWindow(clock),
                                  !.finalized = 1]
    /\ UNCHANGED nonCollVars

\* ------------------------------ prometheus_exporter.py: PrometheusExporter
\* the outcomes of fed, each once, in the order they were first seen: the
\* order a mapping filled record by record holds its keys in
RECURSIVE FirstSeen(_)
FirstSeen(q) ==
    IF Len(q) = 0 THEN <<>>
    ELSE LET p == FirstSeen(SubSeq(q, 1, Len(q) - 1))
             o == q[Len(q)]
         IN  IF \E i \in 1..Len(p) : p[i] = o THEN p ELSE Append(p, o)

\* the summary an exporter renders: the count of each outcome
Counts(q) == [o \in Outcomes |-> Cardinality({i \in 1..Len(q) : q[i] = o})]

\* one line of exposition text for each outcome of order that was counted
RECURSIVE Lines(_, _)
Lines(order, counts) ==
    IF Len(order) = 0 THEN <<>>
    ELSE (IF counts[order[1]] = 0 THEN <<>>
          ELSE <<"chopsticks_operations{outcome=", order[1], "} ">>
               \o StrOfInt(counts[order[1]]) \o <<"\n">>)
         \o Lines(Tail(order), counts)

\* mutant of ExportSummary: the lines come in the order of the mapping
ExportSummary_InsertionOrder(q) ==
    IF Len(q) = 0 THEN Export(0)
    ELSE Export(Len(q)) \o Lines(FirstSeen(q), Counts(q))

\* export() of an exporter whose summary was built from the outcomes q: the
\* placeholder when there is no data, else the total and the count of each
\* outcome, the labels in a fixed order
ExportSummary(q) ==
    IF Len(q) = 0 THEN Export(0)
    ELSE Export(Len(q)) \o Lines(LabelOrder, Counts(q))

\* the collector behind exporter e takes in a record of outcome o
Feed(e, o) ==
    /\ Len(fed[e]) < MaxFed
    /\ exporters' = [exporters EXCEPT !.fed[e] = Append(@, o)]
    /\ UNCHANGED nonExpVars

\* export() is called on exporter e
Scrape(e) ==
    /\ scrapes[e] < MaxScrapes
    /\ exporters' = [exporters EXCEPT
           !.scrapes[e] = @ + 1,
           !.exported = @ \cup {<<Counts(fed[e]), ExportSummary(fed[e])>>}]
    /\ UNCHANGED nonExpVars

\* ----------------------------------------------- s3_workload.py: S3Client
\* what the driver does in a call: it returns its value, it returns its
\* failure value (False, None, no keys), it raises
DriverOutcomes == {"value", "failure", "raise"}

ClientOps == {"upload", "download", "delete", "list_objects", "head_object"}

\* the operations whose driver method has a failure value: False for upload
\* and delete, None for download and head_object
HasFailureValue(op) == op \in {"upload", "download", "delete", "head_object"}

\* the driver failed: it raised, or returned its failure value
DriverFailed(op, d) == d = "raise" \/ (d = "failure" /\ HasFailureValue(op))

\* mutant of ClientException: the except clause drops the exception
ClientException_Lost(d) == None

\* the exception variable of an S3Client method when it fires the event: set
\* in the except clause only
ClientException(d) == IF d = "raise" THEN <<"driver error">> ELSE None

RequestEvent(name, length, exception) ==
    [request_type |-> "S3", name |-> name, response_length |-> length,
     exception |-> exception]

\* S3Client.upload(key, data) with len(data) = n: the event it fires
upload(d, n) == RequestEvent(<<"upload">>, n, ClientException(d))

\* S3Client.download(key), the driver returning n bytes as its value: the
\* length is len(data) if data else 0
download(d, n) ==
    RequestEvent(<<"download">>, IF d = "value" THEN n ELSE 0,
                 ClientException(d))

\* S3Client.delete(key)
delete(d) == RequestEvent(<<"delete">>, 0, ClientException(d))

\* S3Client.list_objects(), the driver returning n keys as its value
list_objects(d, n) ==
    RequestEvent(<<"list">>, IF d = "value" THEN n ELSE 0, ClientException(d))

\* S3Client.head_object(key)
head_object(d) == RequestEvent(<<"head">>, 0, ClientException(d))

\* what an S3Client method returns, the driver doing d: None, or the value
\* in a tuple (True is 1 and False is 0, as int(bool) has it; bytes, lists
\* and dicts by their length)
Returned(op, d, n) ==
    CASE op \in {"upload", "delete"} -> IF d = "value" THEN <<1>> ELSE <<0>>
      [] op = "download" -> IF d = "value" THEN <<n>> ELSE None
      [] op = "list_objects" -> IF d = "value" THEN <<n>> ELSE <<0>>
      [] op = "head_object" -> IF d = "value" THEN <<1>> ELSE None

\* the request event an S3Client method fires
ClientEvent(op, d, n) ==
    CASE op = "upload" -> upload(d, n)
      [] op = "download" -> download(d, n)
      [] op = "delete" -> delete(d)
      [] op = "list_objects" -> list_objects(d, n)
      [] op = "head_object" -> head_object(d)

\* the value an S3Client method holds before its try block and returns when
\* the driver raised: False, None or an empty list
FailureValue(op) ==
    IF op \in {"upload", "delete", "list_objects"} THEN <<0>> ELSE None

\* a call of the S3Client method op, the driver doing d; n is the length of
\* the data uploaded or downloaded, or the number of keys listed
ClientCall(op, d, n) ==
    /\ tasks < MaxTasks
    /\ scenario' = [scenario EXCEPT
           !.tasks = @ + 1,
           !.fired = Append(@, ClientEvent(op, d, n)),
           !.task = [NoTask EXCEPT !.fn = op, !.out = "returned",
                                   !.fails = DriverFailed(op, d),
                                   !.driver = d, !.ret = Returned(op, d, n),
                                   !.events = 1]]
    /\ UNCHANGED nonS3Vars

\* ------------------------------ s3_read_overload.py: S3ReadOverloadUser
\* the test sets the module global test_objects
PatchTestObjects(objs) ==
    /\ test_objects # objs
    /\ scenario' = [scenario EXCEPT !.test_objects = objs]
    /\ UNCHANGED nonS3Vars

\* on_locust_init makes the collector (or the test sets one); the test sets
\* the module global back to None
PatchCollector(present) ==
    /\ metrics_collector # present
    /\ scenario' = [scenario EXCEPT !.metrics_collector = present]
    /\ UNCHANGED nonS3Vars

\* the test sets self.get_object to a Mock that returns d
PatchGetObject(d) ==
    /\ get_object # MockGetObject(d)
    /\ scenario' = [scenario EXCEPT !.get_object = MockGetObject(d)]
    /\ UNCHANGED nonS3Vars

\* mutant of SortedBySize: the list is left in its own order
SortedBySize_Unsorted(objs) == objs

\* the places of objs in the order sorted(objs, key=size_bytes) puts them
\* in: by size, equal sizes in the order of the list
RECURSIVE SortedBySize(_)
SortedBySize(objs) ==
    IF Len(objs) = 0 THEN <<>>
    ELSE LET first == CHOOSE i \in 1..Len(objs) :
                        \A j \in 1..Len(objs) :
                            \/ objs[i] < objs[j]
                            \/ (objs[i] = objs[j] /\ i <= j)
             rest == [k \in 1..(Len(objs) - 1) |->
                         IF k < first THEN objs[k] ELSE objs[k + 1]]
         IN  <<objs[first]>> \o SortedBySize(rest)

\* _select_object_weighted: the sizes of the objects it can return; small
\* is random.random() < 0.8
SelectObjectWeighted(objs, small) ==
    LET smaller_half == SubSeq(SortedBySize(objs), 1, Len(objs) \div 2)
        from == IF small /\ Len(smaller_half) > 0 THEN smaller_half ELSE objs
    IN  {from[i] : i \in 1..Len(from)}

\* S3ReadOverloadUser._select_object_weighted(); small is
\* random.random() < 0.8, r the size_bytes of the object random.choice draws
_select_object_weighted(small, r) ==
    /\ tasks < MaxTasks
    /\ LET this == [NoTask EXCEPT !.fn = "_select_object_weighted",
                                  !.listed = Len(test_objects) > 0,
                                  !.small = small]
       IN  IF Len(test_objects) = 0
           THEN scenario' = [scenario EXCEPT
                    !.tasks = @ + 1,
                    !.task = [this EXCEPT !.out = "returned", !.ret = None]]
           ELSE /\ r \in SelectObjectWeighted(test_objects, small)
                /\ scenario' = [scenario EXCEPT
                       !.tasks = @ + 1,
                       !.task = [this EXCEPT !.out = "returned",
                                             !.ret = <<r>>]]
    /\ UNCHANGED nonS3Vars

\* f"Size mismatch: expected {expected_size}, got {len(data)}"
SizeMismatch(expected, got) ==
    <<"Size mismatch: expected ">> \o StrOfInt(expected) \o <<", got ">>
    \o StrOfInt(got)

\* download_object: error_message for the data get_object returned
ErrorMessage(data, expected_size) ==
    IF data.none THEN <<"Download failed - no data returned">>
    ELSE IF data.len # expected_size THEN SizeMismatch(expected_size, data.len)
    ELSE None

\* download_object: success = data is not None and len(data) == expected_size
DownloadSuccess(data, expected_size) ==
    ~data.none /\ data.len = expected_size

\* the OperationMetric download_object hands to record_operation
DownloadMetric(data, expected_size) ==
    [operation_type |-> "DOWNLOAD",
     object_size_bytes |-> IF ~data.none /\ data.len > 0 THEN data.len ELSE 0,
     success |-> DownloadSuccess(data, expected_size),
     error_message |-> ErrorMessage(data, expected_size)]

\* the request event download_object fires
DownloadEvent(data, expected_size) ==
    LET msg == ErrorMessage(data, expected_size)
    IN  [request_type |-> "S3_GET",
         name |-> <<"download_">> \o StrOfInt(expected_size \div 1024) \o <<"kb">>,
         response_length |-> IF DownloadSuccess(data, expected_size)
                             THEN data.len ELSE 0,
         exception |-> IF DownloadSuccess(data, expected_size) THEN None
                       ELSE IF msg # None THEN msg ELSE <<"Download failed">>]

\* S3ReadOverloadUser.download_object(); small and expected_size are what
\* _select_object_weighted draws
download_object(small, expected_size) ==
    /\ tasks < MaxTasks
    /\ LET this == [NoTask EXCEPT !.fn = "download_object",
                                  !.listed = Len(test_objects) > 0,
                                  !.collector = metrics_collector]
       IN  IF Len(test_objects) = 0
           THEN scenario' = [scenario EXCEPT
                    !.tasks = @ + 1,
                    !.task = [this EXCEPT !.out = "returned"]]
           ELSE /\ expected_size \in SelectObjectWeighted(test_objects, small)
                /\ IF ~get_object.set
                   THEN scenario' = [scenario EXCEPT
                            !.tasks = @ + 1,
                            !.task = [this EXCEPT !.out = "AttributeError",
                                                  !.expected = expected_size]]
                   ELSE LET data == get_object.ret
                        IN  scenario' = [scenario EXCEPT
                                !.tasks = @ + 1,
                                !.recorded =
                                    IF metrics_collector
                                    THEN Append(@,
                                             DownloadMetric(data, expected_size))
                                    ELSE @,
                                !.fired = Append(@,
                                              DownloadEvent(data, expected_size)),
                                !.task = [this EXCEPT
                                    !.out = "returned",
                                    !.expected = expected_size,
                                    !.data = data,
                                    !.events = 1,
                                    !.metrics = IF metrics_collector
                                                THEN 1 ELSE 0]]
    /\ UNCHANGED nonS3Vars

\* ----------------------------------------- the users of the S3Client
\* bool(x) of a returned value: None, False, b"" and [] are false
Truthy(ret) == ret # None /\ ret[1] # 0

\* what the users hand to record_operation
WorkMetric(operation_type, size_bytes, success) ==
    [operation_type |-> operation_type, object_size_bytes |-> size_bytes,
     success |-> success, error_message |-> None]

\* the tasks of MixedWorkloadUser, by the S3Client method they call
MixedTasks ==
    [upload |-> "upload_mixed_object", download |-> "download_mixed_object",
     list_objects |-> "list_objects", delete |-> "delete_mixed_object"]

\* a task of MixedWorkloadUser (s3_mixed_workload_with_metrics.py): it calls
\* self.client.<op> inside a try and records success=True after it; the
\* except clause records success=False and raises again.  S3Client raises
\* nothing, so the except clause runs only for len(data) of a download that
\* returned None
MixedWorkloadUser(op, d, n) ==
    /\ tasks < MaxTasks
    /\ LET this == [NoTask EXCEPT !.fn = MixedTasks[op],
                                  !.collector = metrics_collector,
                                  !.listed = uploaded_objects > 0]
           ret == Returned(op, d, n)
           raises == op = "download" /\ ret = None
           size == CASE op = "upload" -> n
                     [] op = "download" /\ ~raises -> ret[1]
                     [] OTHER -> 0
       IN  IF op \in {"download", "delete"} /\ uploaded_objects = 0
           THEN scenario' = [scenario EXCEPT
                    !.tasks = @ + 1,
                    !.task = [this EXCEPT !.out = "returned"]]
           ELSE scenario' = [scenario EXCEPT
                    !.tasks = @ + 1,
                    !.fired = Append(@, ClientEvent(op, d, n)),
                    !.recorded =
                        IF metrics_collector
                        THEN Append(@, WorkMetric(op, size, ~raises))
                        ELSE @,
                    !.uploaded_objects =
                        CASE op = "upload" -> @ + 1
                          [] op = "delete" -> @ - 1
                          [] OTHER -> @,
                    !.task = [this EXCEPT
                        !.out = IF raises THEN "TypeError" ELSE "returned",
                        !.driver = d,
                        !.fails = DriverFailed(op, d),
                        !.ret = ret,
                        !.events = 1,
                        !.metrics = IF metrics_collector THEN 1 ELSE 0]]
    /\ UNCHANGED nonS3Vars

\* versioning_workload.py:75  self.object_size = 10 * 1024
object_size == 10240

\* versioning_workload.py:130  len(self.object_keys) < 5
MinKeys == 5

\* the tasks of VersioningWorkloadUser, by the S3Client method they call
VersioningTasks ==
    [upload |-> "create_new_version", download |-> "read_latest_version",
     delete |-> "delete_object"]

\* a task of VersioningWorkloadUser (versioning_workload.py): it calls
\* self.client.<op> and records success=True when the value returned is
\* true; fresh is random.random() < 0.3 in create_new_version
VersioningWorkloadUser(op, d, fresh) ==
    /\ tasks < MaxVersions
    /\ LET this == [NoTask EXCEPT !.fn = VersioningTasks[op],
                                  !.collector = metrics_collector,
                                  !.listed = object_keys > 0]
           ret == Returned(op, d, object_size)
           keys == IF op = "upload"
                   THEN (IF object_keys = 0 THEN 1 ELSE object_keys)
                        + (IF fresh THEN 1 ELSE 0)
                   ELSE object_keys
           records == Truthy(ret) /\ metrics_collector
       IN  IF \/ op = "download" /\ object_keys = 0
              \/ op = "delete" /\ object_keys < MinKeys
           THEN scenario' = [scenario EXCEPT
                    !.tasks = @ + 1,
                    !.task = [this EXCEPT !.out = "returned"]]
           ELSE scenario' = [scenario EXCEPT
                    !.tasks = @ + 1,
                    !.fired = Append(@, ClientEvent(op, d, object_size)),
                    !.recorded =
                        IF records
                        THEN Append(@, WorkMetric(op,
                                 CASE op = "delete" -> 0
                                   [] op = "download" -> ret[1]
                                   [] OTHER -> object_size, TRUE))
                        ELSE @,
                    !.object_keys = IF op = "delete" /\ Truthy(ret)
                                    THEN keys - 1 ELSE keys,
                    !.task = [this EXCEPT
                        !.out = "returned",
                        !.driver = d,
                        !.fails = DriverFailed(op, d),
                        !.ret = ret,
                        !.events = 1,
                        !.metrics = IF records THEN 1 ELSE 0]]
    /\ UNCHANGED nonS3Vars

\* ------------------------------------- s3_read_overload.py: the listeners
\* the test patches the name S3Workload of the scenario module with a Mock,
\* or the patch ends
PatchWorkload(bound) ==
    /\ S3Workload # bound
    /\ scenario' = [scenario EXCEPT !.S3Workload = bound]
    /\ UNCHANGED nonS3Vars

\* the test sets the module global metrics_server, or sets it back to None;
\* on_locust_init leaves it None, its MetricsHTTPServer(collector=...) raises
PatchServer(present) ==
    /\ metrics_server # present
    /\ scenario' = [scenario EXCEPT !.metrics_server = present]
    /\ UNCHANGED nonS3Vars

\* the sizes of the objects whose upload succeeded, in the order of the loop
RECURSIVE Uploaded(_, _)
Uploaded(outs, sizes) ==
    IF Len(outs) = 0 THEN <<>>
    ELSE (IF outs[1] THEN <<sizes[1]>> ELSE <<>>)
         \o Uploaded(Tail(outs), Tail(sizes))

\* the OperationMetric on_test_start hands to record_operation
UploadMetric(success, size_bytes) ==
    [operation_type |-> "UPLOAD",
     object_size_bytes |-> size_bytes,
     success |-> success,
     error_message |-> IF success THEN None
                       ELSE <<"Upload failed during setup">>]

\* S3Workload(endpoint=..., ...) as the listeners and the user call it: the
\* class hands its keyword arguments on to locust's User.__init__(self,
\* environment), which takes none of them
WorkloadInit == IF S3Workload = "class" THEN "TypeError" ELSE "returned"

\* on_test_start with NUM_OBJECTS = n; outs[i] is what put_object returns in
\* round i of the loop, sizes[i] the size_bytes drawn in it
on_test_start(n, outs, sizes) ==
    /\ runs < MaxRuns
    /\ LET this == [NoHook EXCEPT !.fn = "on_test_start", !.n = n]
       IN  IF WorkloadInit # "returned"
           THEN scenario' = [scenario EXCEPT
                    !.runs = @ + 1,
                    !.hook = [this EXCEPT !.out = WorkloadInit]]
           ELSE scenario' = [scenario EXCEPT
                    !.runs = @ + 1,
                    !.test_objects = @ \o Uploaded(outs, sizes),
                    !.recorded =
                        IF metrics_collector
                        THEN @ \o [i \in 1..n |-> UploadMetric(outs[i], sizes[i])]
                        ELSE @,
                    !.hook = [this EXCEPT !.out = "returned", !.outs = outs]]
    /\ UNCHANGED nonS3Vars

\* on_test_stop; outs[i] is what delete_object returns for test_objects[i]
on_test_stop(outs) ==
    /\ runs < MaxRuns
    /\ LET this == [NoHook EXCEPT !.fn = "on_test_stop"]
       IN  IF WorkloadInit # "returned"
           THEN scenario' = [scenario EXCEPT
                    !.runs = @ + 1,
                    !.hook = [this EXCEPT !.out = WorkloadInit]]
           ELSE scenario' = [scenario EXCEPT
                    !.runs = @ + 1,
                    !.hook = [this EXCEPT
                        !.out = "returned",
                        !.outs = outs,
                        !.log = [i \in 1..Len(test_objects) |-> "delete"]
                                \o (IF metrics_collector THEN <<"finalize">>
                                    ELSE <<>>)
                                \o (IF metrics_server THEN <<"stop">>
                                    ELSE <<>>)]]
    /\ UNCHANGED nonS3Vars

\* --------------------------------------------------------- specifications
IsRunningStep(c) == IrExists(c) \/ IrRead(c) \/ IrKill(c) \/ IrUnlink(c)

StartStep(c) ==
    \/ StSpawn(c) \/ StOpenPid(c) \/ StWritePid(c) \/ StOpenState(c)
    \/ StWriteState(c) \/ StSleep(c)

StopStep(c) ==
    \/ SpRead(c) \/ SpTerm(c) \/ SpPoll(c) \/ SpUnlinkPid(c) \/ SpUnlinkState(c)

CleanupStep(c) ==
    \/ ClExists(c) \/ ClRead(c) \/ ClKill(c) \/ ClUnlinkPid(c)
    \/ ClUnlinkState(c) \/ ClUnlinkSock(c)

StatusStep(c) == GsExists(c) \/ GsRead(c) \/ GsFallback(c)

CallStep(c) ==
    \/ IsRunningStep(c) \/ StartStep(c) \/ StopStep(c) \/ CleanupStep(c)
    \/ StatusStep(c)

\* the child as src/ has it: it ends at the constructor call, or is killed
ChildStep(p) ==
    \/ ChildArgs(p)
    \/ ChildCtorRaise(p)
    \/ SigDeliver(p, "TERM")

\* the rest of main(), reached when the constructor returns
ServingStep(p) ==
    \/ ChildWritePid(p)
    \/ ChildCtorReturn(p)
    \/ ChildInstallTerm(p) \/ ChildInstallInt(p)
    \/ ChildBind(p) \/ ChildThread(p)
    \/ ChildCleanupPid(p) \/ ChildCleanupState(p) \/ ChildExit(p)
    \/ SigDeliver(p, "INT")
    \/ HandlerStop(p) \/ HandlerCleanupPid(p) \/ HandlerCleanupState(p)
    \/ HandlerExit(p)
    \/ \E s \in {"TERM", "INT"} : EnvSignal(p, s)

EnvStep ==
    \/ \E t \in ManualTexts : EnvWritePidFile(t)
    \/ EnvCorruptState
    \/ EnvTouchSocket

NextSeq ==
    \/ \E o \in Ops : Begin(1, o, FALSE)
    \/ CallStep(1)
    \/ \E p \in Pids : ChildStep(p)
    \/ EnvStep

SpecSeq == Init /\ [][NextSeq]_vars

Next ==
    \/ \E c \in Callers : \E o \in Ops : Begin(c, o, TRUE)
    \/ \E c \in Callers : CallStep(c)
    \/ \E p \in Pids : ChildStep(p)

Spec == Init /\ [][Next]_vars

\* SpecSeq with the caller's thread running on: a call in progress takes its
\* next step; nothing is assumed of the child, which may never run
FairSeq == SpecSeq /\ WF_vars(CallStep(1))

\* one caller that starts the daemon, when no server process runs, and asks
\* is_running(); the processes are stopped by signals
NextChild ==
    \/ NoneAlive /\ Begin(1, "start", FALSE)
    \/ Begin(1, "is_running", FALSE)
    \/ IsRunningStep(1) \/ StartStep(1)
    \/ \E p \in Pids : ChildStep(p) \/ ServingStep(p)
    \/ LaunchStandalone

SpecChild == Init /\ [][NextChild]_vars

\* one process with two MetricsHTTPServer objects, one thread calling their
\* start() and stop(), the serving threads answering requests
NextHttp ==
    \/ \E s \in Servers : \E p \in {AnyPort, DefaultPort} : Construct(s, p)
    \/ \E s \in Servers : \E o \in {"start", "stop"} : HBegin(s, o)
    \/ HsExporter \/ HsBind \/ HsThread
    \/ HpTest \/ HpShutdown \/ HpClose
    \/ \E l \in Socks : \E path \in Paths : HandleGET(l, path)
    \/ \E path \in Paths : PlainGET(path)
    \/ \E s \in Servers : Ingest(s)

SpecHttp == Init /\ [][NextHttp]_vars

\* one collector, two threads calling record_operation, one thread calling
\* get_summary, finalize() called at any time
NextColl ==
    \/ Tick
    \/ \E w \in Writers : \E rec \in RecordInputs : RoBegin(w, rec)
    \/ \E w \in Writers : RoValidate(w) \/ RoLock(w) \/ RoRotate(w)
                              \/ RoCount(w) \/ RoSums(w)
    \/ SmBegin \/ SmRead \/ SmReturn
    \/ FnFinalize

SpecColl == Init /\ [][NextColl]_vars

\* two exporters, their collectors taking records in, export() called on them
NextExp ==
    \/ \E e \in Exporters : \E o \in Outcomes : Feed(e, o)
    \/ \E e \in Exporters : Scrape(e)

SpecExp == Init /\ [][NextExp]_vars

\* one process: calls of the S3Client methods and of download_object, the
\* module globals and the user's get_object set as the tests set them
NextS3 ==
    \/ \E op \in ClientOps : \E d \in DriverOutcomes : \E n \in {0, 1024} :
          ClientCall(op, d, n)
    \/ \E objs \in TestObjectLists : PatchTestObjects(objs)
    \/ \E present \in BOOLEAN : PatchCollector(present)
    \/ \E n \in DataLens : PatchGetObject(Bytes(n))
    \/ PatchGetObject(NoData)
    \/ \E small \in BOOLEAN : \E size \in ObjectSizes :
          download_object(small, size)

SpecS3 == Init /\ [][NextS3]_vars

\* one S3ReadOverloadUser made as the tests make it: its methods called, the
\* module globals and its get_object set as the tests set them
NextUser ==
    \/ \E objs \in TestObjectLists : PatchTestObjects(objs)
    \/ \E present \in BOOLEAN : PatchCollector(present)
    \/ \E n \in DataLens : PatchGetObject(Bytes(n))
    \/ PatchGetObject(NoData)
    \/ \E small \in BOOLEAN : \E size \in ObjectSizes :
          \/ download_object(small, size)
          \/ _select_object_weighted(small, size)

SpecUser == Init /\ [][NextUser]_vars

\* one S3Client: its methods called, the driver doing what it may
NextClient ==
    \E op \in ClientOps : \E d \in DriverOutcomes : \E n \in {0, 1024} :
       ClientCall(op, d, n)

SpecClient == Init /\ [][NextClient]_vars

\* one MixedWorkloadUser and one VersioningWorkloadUser: their tasks run
\* one at a time, the collector set by the init listener or not
NextWork ==
    \/ \E present \in BOOLEAN : PatchCollector(present)
    \/ \E op \in DOMAIN MixedTasks : \E d \in DriverOutcomes :
          MixedWorkloadUser(op, d, 1024)
    \/ \E op \in DOMAIN VersioningTasks : \E d \in DriverOutcomes :
          \E fresh \in BOOLEAN : VersioningWorkloadUser(op, d, fresh)

SpecWork == Init /\ [][NextWork]_vars

\* one process: the listeners of s3_read_overload.py called with the module
\* globals as on_locust_init leaves them, or as the tests patch them
NextRun ==
    \/ \E bound \in {"class", "Mock"} : PatchWorkload(bound)
    \/ \E present \in BOOLEAN : PatchCollector(present) \/ PatchServer(present)
    \/ \E objs \in TestObjectLists : PatchTestObjects(objs)
    \/ \E n \in 0..MaxObjects :
          \E outs \in [1..n -> BOOLEAN] : \E sizes \in [1..n -> ObjectSizes] :
             on_test_start(n, outs, sizes)
    \/ \E outs \in [1..Len(test_objects) -> BOOLEAN] : on_test_stop(outs)

SpecRun == Init /\ [][NextRun]_vars

\* ------------------------------------------------------------ properties
\* what is_running() would find: the PID file exists and names a live process
PidFileNamesLive ==
    pidFile.exists /\ IntParses(pidFile.text) /\ Alive(IntOfStr(pidFile.text))

\* this step is a step of caller c
Steps(c) == call'[c] # call[c]

\* this step ends the call of caller c
Returns(c) == call[c].pc # "idle" /\ call'[c].pc = "idle"

\* C1: stop() never removes the PID file or the state file of a process that
\* is still alive: when the 50 polls after SIGTERM are used up and the process
\* still exists, stop() fails and leaves both files in place.
C1_StopKeepsFilesOfLiveProcess ==
    [][\A c \in Callers :
         (call[c].op = "stop" /\ Steps(c) /\ <<pidFile, stateFile>>' # <<pidFile, stateFile>>)
            => ~Alive(call[c].pid)]_vars

\* C2: start() whose is_running() check finds the PID file naming a live
\* process ends with AlreadyRunning, creates no process and leaves the PID
\* file and the state file as they are; and start() reaches its Popen only
\* when the PID file names no live process.
C2_StartWhileRunning ==
    [][\A c \in Callers :
         /\ (/\ call[c].op = "start" /\ call[c].child = 0 /\ Steps(c)
             /\ call[c].pc = "ir_kill" /\ PidFileNamesLive
             /\ IntOfStr(pidFile.text) = call[c].pid)
               => /\ Returns(c)
                  /\ call'[c].result.out = "AlreadyRunning"
                  /\ UNCHANGED <<fileVars, proc, nextPid>>
         /\ (call'[c].op = "start" /\ call'[c].pc = "st_spawn") => ~PidFileNamesLive'
         /\ (call[c].op = "start" /\ Steps(c) /\ proc' # proc) => ~PidFileNamesLive]_vars

\* C2 witness: a second start() ended with AlreadyRunning while the first
\* child runs, and no second process was created
C2_Witness ==
    /\ call[1].op = "start" /\ call[1].result.out = "AlreadyRunning"
    /\ Alive(1) /\ nextPid = 2

\* C3: when start() returns successfully the PID file holds the decimal text
\* of the child's pid, the state file holds {pid, host, port, start_time} with
\* the same pid, and is_running() would be true; when stop() returns
\* successfully neither file exists and is_running() would be false.
C3_Lifecycle ==
    [][\A c \in Callers :
         (Returns(c) /\ call'[c].result.out = "ok") =>
            /\ call[c].op = "start" =>
                  /\ pidFile' = TextFile(StrOfInt(call[c].child))
                  /\ IntOfStr(pidFile'.text) = call[c].child
                  /\ stateFile' = JsonState([pid |-> call[c].child, host |-> Host,
                                             port |-> Port,
                                             start_time |-> stateFile.doc.start_time])
                  /\ PidFileNamesLive'
            /\ call[c].op = "stop" =>
                  /\ ~pidFile'.exists
                  /\ ~stateFile'.exists
                  /\ ~PidFileNamesLive']_vars

\* C3 witness: stop() returned successfully; the daemon it stopped had been
\* started by a start() (only start() creates processes in SpecSeq)
C3_Witness ==
    /\ call[1].op = "stop" /\ call[1].result.out = "ok"
    /\ nextPid > 1 /\ ~pidFile.exists /\ ~stateFile.exists

\* C4: stop() that finds no live process (no PID file, or a PID file naming
\* no live process) ends with NotRunning, and no step of such a call sends a
\* signal; NotRunning is the outcome of these cases only.
C4_StopNotRunning ==
    [][\A c \in Callers :
         (call[c].op = "stop" /\ Steps(c)) =>
            /\ (call[c].pc = "ir_exists" /\ ~pidFile.exists) =>
                  Returns(c) /\ call'[c].result.out = "NotRunning"
            /\ (call[c].pc = "ir_read" /\ ~(pidFile.exists /\ IntParses(pidFile.text))) =>
                  call'[c].pc = "ir_unlink"
            /\ (call[c].pc = "ir_kill" /\ ~PidFileNamesLive) =>
                  call'[c].pc = "ir_unlink"
            /\ call[c].pc = "ir_unlink" =>
                  Returns(c) /\ call'[c].result.out = "NotRunning"
            /\ call[c].pc \in {"ir_exists", "ir_read", "ir_kill", "ir_unlink"} =>
                  UNCHANGED proc
            /\ call'[c].result.out = "NotRunning" =>
                  /\ call[c].pc \in {"ir_exists", "ir_unlink"}
                  /\ ~PidFileNamesLive]_vars

\* C4 witness: a stop() ended with NotRunning after a daemon had been started
\* and is gone again, files included
C4_Witness ==
    /\ call[1].op = "stop" /\ call[1].result.out = "NotRunning"
    /\ nextPid > 1 /\ ~pidFile.exists /\ ~stateFile.exists /\ NoneAlive

\* C5: is_running() returns True only when the PID file names a live process
\* and then changes nothing; it returns False only when it does not, and then
\* the PID file is gone; the only change it ever makes is to delete a PID file
\* that names no live process (so a second call changes nothing more).
C5_IsRunning ==
    [][\A c \in Callers :
         (call[c].op = "is_running" /\ Steps(c)) =>
            /\ UNCHANGED <<stateFile, sockFile, proc, nextPid>>
            /\ pidFile' # pidFile => (~PidFileNamesLive /\ pidFile' = NoFile)
            /\ (Returns(c) /\ call'[c].result.out = "True") =>
                  (PidFileNamesLive /\ UNCHANGED pidFile)
            /\ (Returns(c) /\ call'[c].result.out = "False") =>
                  (~PidFileNamesLive /\ ~pidFile'.exists)
            /\ Returns(c) => call'[c].result.out \in {"True", "False"}
            /\ (call[c].pc = "ir_exists" /\ ~pidFile.exists) =>
                  (Returns(c) /\ UNCHANGED fileVars)]_vars

\* C5 witness: the PID file was written by hand with a pid that does not
\* exist, and is_running() returned False and deleted it
C5_Witness ==
    /\ call[1].op = "is_running" /\ call[1].result.out = "False"
    /\ manual = 1 /\ ~pidFile.exists

\* the state file names a live process
StateFileNamesLive == stateFile.parses /\ Alive(stateFile.doc.pid)

\* C6: in every state in which the supervised process is alive,
\* cleanup_stale_files() leaves its files untouched: while the PID file names
\* a live process it changes no file, and while the state file names a live
\* process (also when the PID file is missing or stale) it leaves the state
\* file and the socket path alone.
C6_CleanupKeepsLiveFiles ==
    [][\A c \in Callers :
         (call[c].op = "cleanup_stale_files" /\ Steps(c)) =>
            /\ PidFileNamesLive => UNCHANGED fileVars
            /\ StateFileNamesLive => UNCHANGED <<stateFile, sockFile>>]_vars

Installed(p) == proc[p].hand = {"TERM", "INT"}

C9_StartupErrorCleansUp ==
    \A p \in Pids :
        (proc[p].st = "exited" /\ proc[p].exit = 1 /\ proc[p].pidArg)
            => pidFile # TextFile(StrOfInt(p))

\* The state of the daemon as MetricsDaemon sees it: Starting from the Popen
\* of start() to its return, Stopping from the SIGTERM of stop() to its
\* return, otherwise Running when the PID file names a live process.
DState ==
    IF \E c \in Callers : call[c].op = "start" /\ call[c].child # 0 /\ call[c].pc # "idle"
    THEN "Starting"
    ELSE IF \E c \in Callers : call[c].pc \in {"sp_poll", "sp_unl_pid", "sp_unl_state"}
    THEN "Stopping"
    ELSE IF PidFileNamesLive THEN "Running" ELSE "NotRunning"

\* the edges of the state machine, with the failure edges back to NotRunning
DEdges ==
    {<<"NotRunning", "Starting">>, <<"Starting", "Running">>,
     <<"Running", "Stopping">>, <<"Stopping", "NotRunning">>,
     <<"Starting", "NotRunning">>, <<"Running", "NotRunning">>}

\* C10: every change of the daemon's state is an edge of
\* NotRunning -> Starting -> Running -> Stopping -> NotRunning or a failure
\* edge back to NotRunning.
C10_StateMachine == [][DState' # DState => <<DState, DState'>> \in DEdges]_vars

\* C10 witness: the machine went round: stop() has returned after a start()
\* and the daemon is NotRunning again
C10_Witness ==
    /\ DState = "NotRunning" /\ call[1].op = "stop" /\ call[1].result.out = "ok"
    /\ nextPid > 1 /\ NoneAlive

\* C11: stop() that has found the daemon running and then loses the race with
\* the process's own exit (the SIGTERM finds no process) or with another
\* stop() (the PID file is gone when it is read) does not end with an error:
\* it goes on, removes the files and returns successfully.
C11_StopToleratesExit ==
    [][\A c \in Callers :
         (call[c].op = "stop" /\ Steps(c)) =>
            /\ (call[c].pc = "sp_term" /\ ~Alive(call[c].pid)) =>
                  ~(Returns(c) /\ call'[c].result.out # "ok")
            /\ (call[c].pc = "sp_read" /\ ~pidFile.exists) =>
                  ~(Returns(c) /\ call'[c].result.out # "ok")]_vars

\* C12: when a start() returns successfully every live child is the one the
\* PID file names, and no other start() in progress has spawned a child of its
\* own (that one fails with AlreadyRunning before its Popen).
C12_ConcurrentStarts ==
    [][\A c \in Callers :
         (call[c].op = "start" /\ Returns(c) /\ call'[c].result.out = "ok") =>
            /\ \A p \in Pids :
                  Alive(p) => (PidFileNamesLive /\ IntOfStr(pidFile.text) = p)
            /\ \A d \in Callers \ {c} :
                  (call[d].op = "start" /\ call[d].pc # "idle") => call[d].child = 0]_vars

\* a start() has opened the PID file for writing and not yet written it
PidFileHalfWritten ==
    pidFile = TextFile(<<>>) /\ \E d \in Callers : call[d].pc = "st_wpid"

\* a start() has opened the state file for writing and not yet written it
StateFileHalfWritten ==
    stateFile = EmptyState /\ \E d \in Callers : call[d].pc = "st_wstate"

\* C13: is_running(), get_status() and cleanup_stale_files() never read a
\* PID file or a state file that a start() has opened and not yet written, and
\* so never take the empty text for a stale PID file and go on to delete it.
C13_WritesAreAtomic ==
    [][\A c \in Callers :
         (call[c].op \in {"is_running", "get_status", "cleanup_stale_files"} /\ Steps(c)) =>
            /\ call[c].pc \in {"ir_read", "cl_read", "gs_fallback"} => ~PidFileHalfWritten
            /\ call[c].pc = "gs_read" => ~StateFileHalfWritten
            /\ call'[c].pc \in {"ir_unlink", "cl_unl_pid"} => ~PidFileHalfWritten]_vars

\* C14: get_status() always returns a status record, never an error; its
\* running field is True only when is_running() found the PID file naming a
\* live process; the record is the persisted state when the state file parses
\* and the fallback built from the PID file and the configured host and port
\* when it does not.
C14_GetStatusNeverFails ==
    [][\A c \in Callers :
         (call[c].op = "get_status" /\ Returns(c)) =>
            /\ call'[c].result.out = "status"
            /\ call[c].pc \in {"ir_exists", "ir_unlink"} =>
                  call'[c].result.status = [NoStatus EXCEPT !.shape = "stopped"]
            /\ call[c].pc = "gs_read" =>
                  /\ call'[c].result.status.shape = "state"
                  /\ call'[c].result.status.running
                  /\ call'[c].result.status.pid = stateFile.doc.pid
            /\ call[c].pc = "gs_fallback" =>
                  /\ call'[c].result.status.shape = "fallback"
                  /\ call'[c].result.status.running
                  /\ call'[c].result.status.host = Host
                  /\ call'[c].result.status.port = Port]_vars

\* C15: when stop() returns successfully, and when a server process ends its
\* graceful shutdown (exit status 0), the socket path does not exist.
C15_SocketPathRemoved ==
    [][/\ \A c \in Callers :
            (call[c].op = "stop" /\ Returns(c) /\ call'[c].result.out = "ok")
               => ~sockFile'
       /\ \A p \in Pids :
            (proc[p].st # "exited" /\ proc'[p].st = "exited" /\ proc'[p].exit = 0)
               => ~sockFile']_vars

\* how start() and stop() end
Definite == {"ok", "AlreadyRunning", "StartFailed", "NotRunning", "StopFailed",
             "FileNotFoundError", "ValueError"}

\* C16: every start() and every stop() in progress returns, with a definite
\* success or failure, whether or not the child ever runs, exits or acts on
\* SIGTERM; the wait loop of stop() makes at most 50 polls.
C16_StartStopReturn ==
    /\ [](\A c \in Callers : call[c].polls <= StopPolls)
    /\ \A o \in {"start", "stop"} :
          (call[1].op = o /\ call[1].pc # "idle")
             ~> (call[1].op = o /\ call[1].pc = "idle" /\ call[1].result.out \in Definite)

\* C16 witness: stop() has returned although the process it signalled still
\* exists with the SIGTERM undelivered: the 50 polls were used up
C16_Witness ==
    /\ call[1].op = "stop" /\ call[1].pc = "idle" /\ call[1].result.out = "ok"
    /\ \E p \in Pids : Alive(p) /\ "TERM" \in proc[p].pend

\* this step is a step of the start() or stop() in progress
HSteps == hcall.pc # "idle" /\ hcall' # hcall

\* this step ends the start() or stop() in progress
HReturns == hcall.pc # "idle" /\ hcall'.pc = "idle"

\* C17: start() on a server that is Bound, or whose port a listening socket
\* has, fails at the bind with the bind error and changes nothing of the
\* server: self.server, self.thread and the listening sockets stay as they
\* are.
C17_StartFailsWhenBound ==
    [][(/\ hcall.op = "start" /\ hcall.pc = "hs_bind" /\ HSteps
        /\ (Bound(hcall.srv) \/ PortInUse(mserver[hcall.srv].port)))
          => /\ HReturns
             /\ hcall'.out = "OSError"
             /\ UNCHANGED <<mserver, socks, nextSock>>]_vars

\* C18: stop() always returns normally; on a server that is not Bound (never
\* started, or stopped) it changes nothing; when it returns the server is not
\* Bound, and a start() of a server that is not Bound succeeds at its bind
\* unless another server has the port.
C18_StopIdempotent ==
    [][/\ (hcall.op = "stop" /\ HSteps) =>
            /\ HReturns => (hcall'.out = "ok" /\ ~Bound(hcall.srv)')
            /\ ~Bound(hcall.srv) => UNCHANGED <<mserver, socks, nextSock, handlerExp>>
       /\ (/\ hcall.op = "start" /\ hcall.pc = "hs_bind" /\ HSteps
           /\ ~Bound(hcall.srv) /\ ~PortInUse(mserver[hcall.srv].port))
             => (hcall'.pc = "hs_thread" /\ Bound(hcall.srv)')]_vars

\* C19: every response has the status, the Content-Type and the body of its
\* route: "/" gives 200, text/html and the info page; "/metrics" gives 200,
\* text/plain; version=0.0.4 and the text the attached exporter renders; every
\* other path gives 404.  Answering changes no server, no listening socket and
\* no collector.
C19_Routes ==
    [][resp' # resp =>
         /\ resp'.path = "/" =>
               /\ resp'.status = 200 /\ resp'.ctype = "text/html"
               /\ resp'.body = InfoPage
         /\ resp'.path = "/metrics" =>
               /\ resp'.status = 200 /\ resp'.ctype = "text/plain; version=0.0.4"
               /\ handlerExp # 0 => resp'.body = Export(ingested[handlerExp])
         /\ resp'.path \notin {"/", "/metrics"} =>
               /\ resp'.status = 404 /\ resp'.body = <<>>
         /\ UNCHANGED <<mserver, socks, nextSock, handlerExp, ingested, hcall>>]_vars

\* C19 witness: a serving MetricsHTTPServer answered "/metrics/" with 404
\* after its collector had taken in a record
C19_Witness ==
    /\ resp.path = "/metrics/" /\ resp.status = 404 /\ resp.via # 0
    /\ handlerExp # 0 /\ ingested[handlerExp] > 0

\* C20: the body of a response to "/metrics" is never empty, and it starts
\* with "#" when no exporter is attached to the handler or the attached
\* exporter's collector has taken in nothing.
C20_MetricsBodyNeverEmpty ==
    [][(resp' # resp /\ resp'.path = "/metrics") =>
         /\ resp'.body # <<>>
         /\ (handlerExp = 0 \/ ingested[handlerExp] = 0) => Head(resp'.body) = "#"]_vars

\* C20 witness: "/metrics" was answered by a handler with no exporter attached
C20_Witness ==
    /\ resp.path = "/metrics" /\ resp.via = 0 /\ handlerExp = 0
    /\ resp.status = 200 /\ resp.body = NoMetricsBody

\* ---------------------------------------------- properties: the collector
\* no writer is inside the exclusive section: what the collector holds is
\* what a caller can see
Quiescent == lock = 0

\* the number of records taken in
AcceptedCount == SumOver(DOMAIN accepted, accepted)

WindowSums(ws) ==
    [count |-> SumSeq([i \in 1..Len(ws) |-> ws[i].count]),
     success_count |-> SumSeq([i \in 1..Len(ws) |-> ws[i].success_count]),
     total_bytes |-> SumSeq([i \in 1..Len(ws) |-> ws[i].total_bytes])]

Windows == Append(history, window)

\* exactly one window is open, the current one
OneCurrent ==
    /\ ~window.closed
    /\ \A i \in 1..Len(history) : history[i].closed

\* the windows follow one another in time without gap or overlap
Contiguous ==
    /\ Windows[1].start = 0
    /\ \A i \in 1..Len(history) :
         /\ Windows[i].start <= Windows[i].end
         /\ Windows[i].end = Windows[i + 1].start

C26_InvalidRecordDropped ==
    [][\A w \in Writers :
          (writer[w].pc = "validate" /\ ~Valid(writer[w].rec)
             /\ writer'[w] # writer[w]) =>
              /\ writer'[w].pc = "idle"
              /\ UNCHANGED <<window, history, lock, finalized, accepted>>
              /\ Summary' = Summary]_vars

\* C26 witness: one of the two calls made has dropped its record, the other,
\* with a valid record, is inside the exclusive section
C26_Witness ==
    /\ writes = 2 /\ AcceptedCount = 0
    /\ writer[1].pc = "sums" /\ writer[2].pc = "idle"

\* C27: the first finalize() closes the current window into history; a
\* later finalize() changes no window, no count and not the summary
C27_FinalizeIdempotent ==
    [][/\ (finalized = 0 /\ finalized' = 1) =>
            history' = Append(history, Close(window, clock))
       /\ (finalized >= 1 /\ finalized' > finalized) =>
            /\ UNCHANGED <<window, history, accepted>>
            /\ Summary' = Summary]_vars

\* C27 witness: finalize() was called twice, the window the first call
\* closed holds a record and is the last of history
C27_Witness ==
    /\ finalized = 2
    /\ Len(history) >= 1
    /\ history[Len(history)].count >= 1
    /\ window.count = 0

\* ---------------------------------------------- properties: the exporter
\* C28: export() is a function of the summary: any two texts exported for
\* equal summaries are equal, whichever exporter made them, whatever order
\* its records came in and however many calls came before
C28_ExportDeterministic ==
    \A p, q \in exported : p[1] = q[1] => p[2] = q[2]

\* C28 witness: the exporters took the same two records in, in different
\* orders; one was scraped twice, the other once
C28_Witness ==
    /\ fed[1] = <<"timeout", "unknown">> /\ fed[2] = <<"unknown", "timeout">>
    /\ scrapes[1] = 2 /\ scrapes[2] = 1
    /\ \E p \in exported : p[1] = Counts(fed[1])

\* ------------------------------------- properties: S3 client and scenario
\* the request event the last call fired
LastEvent == fired[Len(fired)]

\* the metric the last call recorded
LastMetric == recorded[Len(recorded)]

\* C29: when the driver failed in an S3Client call, by raising or by
\* returning its failure value, the request event of the call carries an
\* exception
C29_DriverFailureIsReported ==
    (task.fn \in ClientOps /\ task.fails) => LastEvent.exception # None

\* download_object called with objects listed and get_object there: the
\* lines after the download
DownloadReported ==
    /\ task.out = "returned"
    /\ task.events = 1
    /\ task.collector => task.metrics = 1
    /\ LET success == ~task.data.none /\ task.data.len = task.expected
       IN  /\ success <=> LastEvent.exception = None
           /\ task.collector =>
                /\ LastMetric.success <=> success
                /\ ~success => LastMetric.error_message # None
                /\ (~task.data.none /\ task.data.len # task.expected) <=>
                      ( /\ LastMetric.error_message # None
                        /\ LastMetric.error_message[1] = "Size mismatch: expected " )

\* C30: download_object with objects listed and a collector records one
\* metric and fires one event, success and the messages as the data
\* returned has it; with no object listed it records and fires nothing
C30_DownloadObjectReports ==
    task.fn = "download_object" =>
        IF task.listed
        THEN task.collector => DownloadReported
        ELSE task.events = 0 /\ task.metrics = 0 /\ task.out = "returned"

\* download_object with a get_object set on the user does what C30 says
C30_WithGetObject ==
    (task.fn = "download_object" /\ task.out # "AttributeError") =>
        IF task.listed THEN DownloadReported
        ELSE task.events = 0 /\ task.metrics = 0

\* a step of _select_object_weighted
SelectRuns == tasks' # tasks /\ task'.fn = "_select_object_weighted"

\* fewer than half of the objects are smaller than the one of size x
InSmallerHalf(objs, x) ==
    Cardinality({i \in 1..Len(objs) : objs[i] < x}) < Len(objs) \div 2

\* C33: _select_object_weighted returns None if and only if test_objects
\* is empty; else it returns an element of test_objects, the one there is
\* when there is one, and one of the smaller half by size on the 80% branch
\* when that half is not empty
C33_SelectObjectWeighted ==
    [][SelectRuns =>
        /\ task'.ret = None <=> Len(test_objects) = 0
        /\ Len(test_objects) > 0 =>
             /\ \E i \in 1..Len(test_objects) : task'.ret = <<test_objects[i]>>
             /\ Len(test_objects) = 1 => task'.ret = <<test_objects[1]>>
             /\ (task'.small /\ Len(test_objects) \div 2 > 0) =>
                    InSmallerHalf(test_objects, task'.ret[1])]_vars

C33_Witness ==
    /\ task.fn = "_select_object_weighted"
    /\ task.small
    /\ Len(test_objects) = 3
    /\ task.ret = <<1024>>

\* ----------------------------------------- properties: the listeners
\* the number of TRUE in outs
RECURSIVE Successes(_)
Successes(outs) ==
    IF Len(outs) = 0 THEN 0
    ELSE (IF outs[1] THEN 1 ELSE 0) + Successes(Tail(outs))

\* a step of on_test_start
StartRuns == runs' # runs /\ hook'.fn = "on_test_start"

\* the metrics the step recorded
NewMetrics == SubSeq(recorded', Len(recorded) + 1, Len(recorded'))

\* on_test_start made n upload attempts, recorded each once with its outcome
\* and listed the objects uploaded
UploadsAccounted ==
    /\ Len(hook'.outs) = hook'.n
    /\ Len(test_objects') - Len(test_objects) = Successes(hook'.outs)
    /\ metrics_collector =>
         /\ Len(NewMetrics) = hook'.n
         /\ \A i \in 1..hook'.n : NewMetrics[i].success = hook'.outs[i]

\* C31: on_test_start with NUM_OBJECTS = n makes n upload attempts, calls
\* record_operation once per attempt with success equal to the outcome of
\* the upload, and appends to test_objects one entry per successful upload
C31_OnTestStartUploads == [][StartRuns => UploadsAccounted]_vars

\* on_test_start with S3Workload patched, as the tests run it, does what
\* C31 says
C31_WithMock ==
    [][(StartRuns /\ hook'.out = "returned") => UploadsAccounted]_vars

\* a step of on_test_stop
StopRuns == runs' # runs /\ hook'.fn = "on_test_stop"

\* one delete for each entry of test_objects, then finalize(), then stop()
CleanedUp ==
    hook'.log = [i \in 1..Len(test_objects) |-> "delete"]
                \o <<"finalize", "stop">>

\* C32: on_test_stop attempts to delete every entry of test_objects once,
\* whatever the deletes before returned, then calls finalize() once, then
\* stops the metrics server once
C32_OnTestStopOrder == [][StopRuns => CleanedUp]_vars

\* on_test_stop with S3Workload patched and both globals set, as the test
\* runs it, does what C32 says
C32_WithMock ==
    [][(StopRuns /\ hook'.out = "returned" /\ metrics_collector
        /\ metrics_server) => CleanedUp]_vars

\* ------------------------------------ properties: the daemon, continued
\* main() of process p is in the cleanup of its finally clause, or past it
InFinally(p) == proc[p].st \in {"fin_cl_pid", "fin_cl_state", "fin_exit"}

C35_OwnExporter ==
    [][(resp' # resp /\ resp'.path = "/metrics" /\ resp'.via # 0) =>
         resp'.body = Export(ingested[mserver[socks[resp'.via].owner].exporter])]_vars

\* ------------------------------------------ properties: the workloads
\* the names of the tasks C36 is about
WorkTasks ==
    {MixedTasks[op] : op \in DOMAIN MixedTasks}
    \cup {VersioningTasks[op] : op \in DOMAIN VersioningTasks}

\* C36: a task of the mixed or of the versioning workload that made its
\* storage operation, with a collector set, recorded it once, and with
\* success=false when the driver call failed
C36_RecordedOncePerOperation ==
    (task.fn \in WorkTasks /\ task.events = 1 /\ task.collector) =>
        /\ task.metrics = 1
        /\ LastMetric.success = ~task.fails

\* C37: each S3Client call (upload, download, delete, list_objects,
\* head_object) fires exactly one request event whatever the driver does, and
\* returns to its caller; when the driver raised, it returns its failure
\* value (False, None or an empty list) and the event carries the exception
C37_OneEventPerCall ==
    /\ Len(fired) = tasks
    /\ task.fn \in ClientOps =>
          /\ task.events = 1
          /\ task.out = "returned"
          /\ task.driver = "raise" =>
                /\ task.ret = FailureValue(task.fn)
                /\ LastEvent.exception = <<"driver error">>

\* a call in which the driver raised has returned
C37_Witness ==
    task.fn \in ClientOps /\ task.driver = "raise" /\ tasks = Len(fired)

\* C38: when a start() ends in "Failed to start metrics server" because the
\* child is not live after the startup wait, neither the PID file nor the
\* state file exists any more
C38_FailedStartLeavesNoFiles ==
    [][\A c \in Callers :
          (/\ call[c].op = "start"
           /\ call[c].result.out = "pending"
           /\ call'[c].result.out = "StartFailed")
          => (~pidFile'.exists /\ ~stateFile'.exists)]_vars

\* the PID file and the state file both exist, nobody wrote them by hand,
\* and each holds what its writer put there in full
BothFiles ==
    /\ pidFile.exists /\ IntParses(pidFile.text)
    /\ stateFile.exists /\ stateFile.parses
    /\ manual = 0

\* the two files name one process
SameProcess == stateFile.doc.pid = IntOfStr(pidFile.text)

\* C39: whenever the PID file and the state file both exist they describe
\* the same process: the pid in the state file is the pid in the PID file,
\* and no state file of an earlier process lies next to the PID file of the
\* process supervised now
C39_FilesDescribeSameProcess == BothFiles => SameProcess

\* the same between the calls of one caller: when no call is in progress
C39_AtRest == (AllIdle /\ BothFiles) => SameProcess

====
